---- MODULE Spec2Model ----
(***************************************************************************)
(* Verification model of the hash-table repository:                        *)
(*   - StaticHashTable   (src/src/MyHashTable.ts)                          *)
(*   - AdvancedHashTable (src/unnamed/part_003)                            *)
(*   - HashTable         (src/src/HashTable.ts)                            *)
(* Each public method is one action; each private helper is an operator    *)
(* translated from its code.                                               *)
(***************************************************************************)
EXTENDS Integers, Sequences, FiniteSets, TLC

(***************************************************************************)
(* Bounds of the model.                                                    *)
(***************************************************************************)
\* number of distinct keys the callers use with the static table
NumKeys == 2
\* number of distinct values the callers use
NumVals == 2

\* largest magnitude of the integers, moduli and attempt numbers the numeric
\* properties range over
MaxMagnitude == 9

Keys == 1..NumKeys
Values == 1..NumVals

VARIABLES
  \* ---- StaticHashTable fields (MyHashTable.ts:76-84) ----
  buckets,         \* Array<Array<Entry>>: sequence of buckets, each a sequence of entries
  overflow,        \* Array<Entry|null>: each slot <<>> (null) or <<entry>>
  strategy,        \* CollisionStrategy
  primaryHash,     \* HashFn: function from keys to integers
  secondaryHash,   \* optional HashFn: <<>> (undefined) or <<function>>
  bucketCapacity,
  numBuckets,
  overflowSize,
  \* ---- AdvancedHashTable fields (part_003:37-46) ----
  aBuckets,        \* buckets: sequence of [entries, overflowChain]; overflowChain is <<>> (undefined) or <<entries>>
  overflowArea,    \* Array<HashEntry>
  size,
  capacity,
  aBucketCapacity, \* bucketCapacity
  method,          \* CollisionResolutionMethod
  loadFactor,      \* the stored quotient, kept as [num, den]
  maxLoadFactor,   \* [num, den]
  directory,       \* DirectoryEntry[]: sequence of [bucketIndex, depth]
  globalDepth,
  \* ---- HashTable fields (HashTable.ts:6-8) ----
  hBuckets,        \* buckets: sequence of buckets, each a sequence of [key, value]
  hSize,           \* size
  hCapacity        \* capacity

svars == <<buckets, overflow, strategy, primaryHash, secondaryHash, bucketCapacity,
           numBuckets, overflowSize>>

avars == <<aBuckets, overflowArea, size, capacity, aBucketCapacity, method, loadFactor,
           maxLoadFactor, directory, globalDepth>>

bvars == <<hBuckets, hSize, hCapacity>>

vars == <<svars, avars, bvars>>

(***************************************************************************)
(* StaticHashTable                                                         *)
(***************************************************************************)
Strategies == {"LINEAR_PROBING", "CHAINED_LINEAR", "DOUBLE_HASHING", "SEPARATE_OVERFLOW"}

\* The table object as one record, so that helpers can be applied to the
\* current state (Tbl) and to the next one (Tbl').
Tbl == [buckets |-> buckets, overflow |-> overflow, strategy |-> strategy,
        primaryHash |-> primaryHash, secondaryHash |-> secondaryHash,
        bucketCapacity |-> bucketCapacity, numBuckets |-> numBuckets,
        overflowSize |-> overflowSize]

Max2(a, b) == IF a >= b THEN a ELSE b

\* JavaScript's % on integers: the result takes the sign of the dividend.
JsRem(n, m) == IF n >= 0 THEN n % m ELSE -((-n) % m)

\* Variant of mod that is the bare remainder n % m, without the correction
\* `+ m) % m`; used to show that C24 depends on the correction.
ModRemainder(n, m) == JsRem(n, m)

\* mod(n, m) = ((n % m) + m) % m
Mod(n, m) == JsRem(JsRem(n, m) + m, m)

\* constructor(opts): opts.strategy and opts.overflowSize are <<>> when absent.
Constructor(opts) ==
  [numBuckets     |-> opts.numBuckets,
   bucketCapacity |-> opts.bucketCapacity,
   primaryHash    |-> opts.primaryHash,
   secondaryHash  |-> opts.secondaryHash,
   strategy       |-> IF opts.strategy = <<>> THEN "LINEAR_PROBING" ELSE opts.strategy[1],
   buckets        |-> [i \in 1..opts.numBuckets |-> <<>>],
   overflowSize   |-> IF opts.overflowSize = <<>>
                        THEN Max2(4, opts.numBuckets \div 2)
                        ELSE opts.overflowSize[1],
   overflow       |-> [i \in 1..(IF opts.overflowSize = <<>>
                                   THEN Max2(4, opts.numBuckets \div 2)
                                   ELSE opts.overflowSize[1]) |-> <<>>]]

\* probeIndex throws when DOUBLE_HASHING is configured without a secondaryHash.
ProbeThrows(t) == t.strategy = "DOUBLE_HASHING" /\ t.secondaryHash = <<>>

\* Variant of probeIndex that ignores the attempt number (every attempt probes
\* the home bucket); used to show that C17 depends on the step (h1 + i) mod m.
ProbeIndexHome(t, key, attempt) == Mod(t.primaryHash[key], t.numBuckets)

\* probeIndex(key, attempt), 0-based bucket index (when it does not throw).
ProbeIndex(t, key, attempt) ==
  LET h1 == Mod(t.primaryHash[key], t.numBuckets) IN
  IF t.strategy = "DOUBLE_HASHING"
    THEN LET n2 == Mod(t.secondaryHash[1][key], t.numBuckets)
             h2 == IF n2 = 0 THEN 1 ELSE n2
         IN Mod(h1 + attempt * h2, t.numBuckets)
    ELSE Mod(h1 + attempt, t.numBuckets)

\* the step of DOUBLE_HASHING: `let h2 = mod(secondaryHash(key), numBuckets);
\* if (h2 === 0) h2 = 1`
ProbeStep(t, key) ==
  LET h2 == Mod(t.secondaryHash[1][key], t.numBuckets)
  IN IF h2 = 0 THEN 1 ELSE h2

\* `for (const e of bucket) if (!e.deleted && equalsFn(e.key, key))`:
\* position of the first live entry of key in the bucket, 0 when there is none.
LiveIndex(bucket, key) ==
  LET hits == {i \in 1..Len(bucket) : ~bucket[i].deleted /\ bucket[i].key = key}
  IN IF hits = {} THEN 0 ELSE CHOOSE i \in hits : \A j \in hits : i <= j

\* e.value = value on the entry at position pos of bucket b (1-based bucket index)
SetValueAt(t, b, pos, value) ==
  [t EXCEPT !.buckets[b][pos].value = value]

\* bucket.push(entry)
PushAt(t, b, entry) ==
  [t EXCEPT !.buckets[b] = Append(@, entry)]

\* ---------------- insertar (MyHashTable.ts:173-287) ----------------

\* Variant of the probing insertion that reports exhaustion of the probe
\* sequence by raising (as AdvancedHashTable.setWithLinearProbing does) instead of
\* returning false; used to show that C11 depends on the boolean failure result.
RECURSIVE InsertarProbingThrows(_, _, _, _)
InsertarProbingThrows(t, key, value, i) ==
  IF i >= t.numBuckets THEN [t |-> t, res |-> "throw"]
  ELSE LET b   == ProbeIndex(t, key, i) + 1
           pos == LiveIndex(t.buckets[b], key)
       IN IF pos # 0
            THEN [t |-> SetValueAt(t, b, pos, value), res |-> "true"]
          ELSE IF Len(t.buckets[b]) < t.bucketCapacity
            THEN [t |-> PushAt(t, b, [key |-> key, value |-> value, deleted |-> FALSE]),
                  res |-> "true"]
          ELSE InsertarProbingThrows(t, key, value, i + 1)

\* Variant of the probing insertion whose room test is off by one
\* (bucket.length <= bucketCapacity); used to show that C13 depends on the test
\* bucket.length < bucketCapacity.
RECURSIVE InsertarProbingOverfill(_, _, _, _)
InsertarProbingOverfill(t, key, value, i) ==
  IF i >= t.numBuckets THEN [t |-> t, res |-> "false"]
  ELSE LET b   == ProbeIndex(t, key, i) + 1
           pos == LiveIndex(t.buckets[b], key)
       IN IF pos # 0
            THEN [t |-> SetValueAt(t, b, pos, value), res |-> "true"]
          ELSE IF Len(t.buckets[b]) <= t.bucketCapacity
            THEN [t |-> PushAt(t, b, [key |-> key, value |-> value, deleted |-> FALSE]),
                  res |-> "true"]
          ELSE InsertarProbingOverfill(t, key, value, i + 1)

\* Variant of the probing insertion that tests a bucket for room before it looks
\* for the key in it; used to show that C28 depends on the search for a live
\* entry coming first.
RECURSIVE InsertarProbingRoomFirst(_, _, _, _)
InsertarProbingRoomFirst(t, key, value, i) ==
  IF i >= t.numBuckets THEN [t |-> t, res |-> "false"]
  ELSE LET b   == ProbeIndex(t, key, i) + 1
           pos == LiveIndex(t.buckets[b], key)
       IN IF Len(t.buckets[b]) < t.bucketCapacity
            THEN [t |-> PushAt(t, b, [key |-> key, value |-> value, deleted |-> FALSE]),
                  res |-> "true"]
          ELSE IF pos # 0
            THEN [t |-> SetValueAt(t, b, pos, value), res |-> "true"]
          ELSE InsertarProbingRoomFirst(t, key, value, i + 1)

\* LINEAR_PROBING / DOUBLE_HASHING: the loop `for (i = 0; i < numBuckets; i++)`
\* from attempt i on. Result: [t, res] with res in {"true", "false"}.
RECURSIVE InsertarProbing(_, _, _, _)
InsertarProbing(t, key, value, i) ==
  IF i >= t.numBuckets THEN [t |-> t, res |-> "false"]
  ELSE LET b   == ProbeIndex(t, key, i) + 1
           pos == LiveIndex(t.buckets[b], key)
       IN IF pos # 0
            THEN [t |-> SetValueAt(t, b, pos, value), res |-> "true"]
          ELSE IF Len(t.buckets[b]) < t.bucketCapacity
            THEN [t |-> PushAt(t, b, [key |-> key, value |-> value, deleted |-> FALSE]),
                  res |-> "true"]
          ELSE InsertarProbing(t, key, value, i + 1)

\* CHAINED_LINEAR: the inner loop `for (offset = 1; offset < numBuckets; offset++)`
\* from `offset` on: the first candidate bucket with room gets the entry, and no
\* candidate is searched for the key.
RECURSIVE InsertarChainedScan(_, _, _, _, _)
InsertarChainedScan(t, cursor, key, value, offset) ==
  IF offset >= t.numBuckets THEN [t |-> t, res |-> "false"]
  ELSE LET c == Mod(cursor + offset, t.numBuckets) + 1
       IN IF Len(t.buckets[c]) < t.bucketCapacity
            THEN [t |-> PushAt(t, c, [key |-> key, value |-> value,
                                      deleted |-> FALSE, next |-> -1]),
                  res |-> "true"]
            ELSE InsertarChainedScan(t, cursor, key, value, offset + 1)

\* CHAINED_LINEAR: the `while (!visited.has(cursor))` body runs once (cursor is
\* a const and every path of the body returns or breaks).
InsertarChained(t, key, value) ==
  LET cursor == Mod(t.primaryHash[key], t.numBuckets)
      b      == cursor + 1
      pos    == LiveIndex(t.buckets[b], key)
  IN IF pos # 0
       THEN [t |-> SetValueAt(t, b, pos, value), res |-> "true"]
     ELSE IF Len(t.buckets[b]) < t.bucketCapacity
       THEN [t |-> PushAt(t, b, [key |-> key, value |-> value,
                                 deleted |-> FALSE, next |-> -1]),
             res |-> "true"]
     ELSE InsertarChainedScan(t, cursor, key, value, 1)

\* Variant of the overflow scan that never uses the last slot of the overflow
\* area; used to show that C18 depends on the scan covering all overflowSize slots.
RECURSIVE InsertarOverflowScanShort(_, _, _, _)
InsertarOverflowScanShort(t, key, value, i) ==
  IF i >= t.overflowSize - 1 THEN [t |-> t, res |-> "false"]
  ELSE LET ov == t.overflow[i + 1]
       IN IF ov = <<>> \/ (ov[1].deleted /\ ov[1].key = key)
            THEN [t |-> [t EXCEPT !.overflow[i + 1] =
                           <<[key |-> key, value |-> value, deleted |-> FALSE]>>],
                  res |-> "true"]
          ELSE IF ~ov[1].deleted /\ ov[1].key = key
            THEN [t |-> [t EXCEPT !.overflow[i + 1][1].value = value], res |-> "true"]
          ELSE InsertarOverflowScanShort(t, key, value, i + 1)

\* SEPARATE_OVERFLOW: the loop over the overflow area from slot i (0-based) on.
RECURSIVE InsertarOverflowScan(_, _, _, _)
InsertarOverflowScan(t, key, value, i) ==
  IF i >= t.overflowSize THEN [t |-> t, res |-> "false"]
  ELSE LET ov == t.overflow[i + 1]
       IN IF ov = <<>> \/ (ov[1].deleted /\ ov[1].key = key)
            THEN [t |-> [t EXCEPT !.overflow[i + 1] =
                           <<[key |-> key, value |-> value, deleted |-> FALSE]>>],
                  res |-> "true"]
          ELSE IF ~ov[1].deleted /\ ov[1].key = key
            THEN [t |-> [t EXCEPT !.overflow[i + 1][1].value = value], res |-> "true"]
          ELSE InsertarOverflowScan(t, key, value, i + 1)

InsertarSeparateOverflow(t, key, value) ==
  LET b   == Mod(t.primaryHash[key], t.numBuckets) + 1
      pos == LiveIndex(t.buckets[b], key)
  IN IF pos # 0
       THEN [t |-> SetValueAt(t, b, pos, value), res |-> "true"]
     ELSE IF Len(t.buckets[b]) < t.bucketCapacity
       THEN [t |-> PushAt(t, b, [key |-> key, value |-> value, deleted |-> FALSE]),
             res |-> "true"]
     ELSE InsertarOverflowScan(t, key, value, 0)

\* insertar(key, value): [t, res], res in {"true", "false", "throw"}
Insertar(t, key, value) ==
  IF t.strategy \in {"LINEAR_PROBING", "DOUBLE_HASHING"}
    THEN IF ProbeThrows(t) /\ t.numBuckets > 0
           THEN [t |-> t, res |-> "throw"]
           ELSE InsertarProbing(t, key, value, 0)
  ELSE IF t.strategy = "CHAINED_LINEAR" THEN InsertarChained(t, key, value)
  ELSE IF t.strategy = "SEPARATE_OVERFLOW" THEN InsertarSeparateOverflow(t, key, value)
  ELSE [t |-> t, res |-> "throw"]

\* ---------------- buscar (MyHashTable.ts:303-356) ----------------
\* The result is <<>> for null and <<v>> for the value v.

\* Variant of the probing search that gives up at the first bucket of the probe
\* sequence holding a deleted entry (the early stop buscar does not make); used
\* to show that C9 depends on the search walking past tombstones.
RECURSIVE BuscarProbingStop(_, _, _)
BuscarProbingStop(t, key, i) ==
  IF i >= t.numBuckets THEN <<>>
  ELSE LET b   == ProbeIndex(t, key, i) + 1
           pos == LiveIndex(t.buckets[b], key)
       IN IF pos # 0 THEN <<t.buckets[b][pos].value>>
          ELSE IF \E p \in 1..Len(t.buckets[b]) : t.buckets[b][p].deleted THEN <<>>
          ELSE BuscarProbingStop(t, key, i + 1)

RECURSIVE BuscarProbing(_, _, _)
BuscarProbing(t, key, i) ==
  IF i >= t.numBuckets THEN <<>>
  ELSE LET b   == ProbeIndex(t, key, i) + 1
           pos == LiveIndex(t.buckets[b], key)
       IN IF pos # 0 THEN <<t.buckets[b][pos].value>>
          ELSE BuscarProbing(t, key, i + 1)

\* CHAINED_LINEAR: cursor walks baseIdx, baseIdx+1, ... until it comes back to
\* a visited bucket, i.e. over all numBuckets buckets; n counts the visited ones.
RECURSIVE BuscarChained(_, _, _, _)
BuscarChained(t, key, cursor, n) ==
  IF n >= t.numBuckets THEN <<>>
  ELSE LET pos == LiveIndex(t.buckets[cursor + 1], key)
       IN IF pos # 0 THEN <<t.buckets[cursor + 1][pos].value>>
          ELSE BuscarChained(t, key, Mod(cursor + 1, t.numBuckets), n + 1)

RECURSIVE BuscarOverflowScan(_, _, _)
BuscarOverflowScan(t, key, i) ==
  IF i >= t.overflowSize THEN <<>>
  ELSE LET ov == t.overflow[i + 1]
       IN IF ov # <<>> /\ ~ov[1].deleted /\ ov[1].key = key
            THEN <<ov[1].value>>
            ELSE BuscarOverflowScan(t, key, i + 1)

BuscarSeparateOverflow(t, key) ==
  LET b   == Mod(t.primaryHash[key], t.numBuckets) + 1
      pos == LiveIndex(t.buckets[b], key)
  IN IF pos # 0 THEN <<t.buckets[b][pos].value>>
     ELSE BuscarOverflowScan(t, key, 0)

\* buscar throws only through probeIndex
BuscarThrows(t) ==
  t.strategy \in {"LINEAR_PROBING", "DOUBLE_HASHING"} /\ ProbeThrows(t) /\ t.numBuckets > 0

Buscar(t, key) ==
  IF t.strategy \in {"LINEAR_PROBING", "DOUBLE_HASHING"} THEN BuscarProbing(t, key, 0)
  ELSE IF t.strategy = "CHAINED_LINEAR"
    THEN BuscarChained(t, key, Mod(t.primaryHash[key], t.numBuckets), 0)
  ELSE IF t.strategy = "SEPARATE_OVERFLOW" THEN BuscarSeparateOverflow(t, key)
  ELSE <<>>

\* ---------------- eliminar (MyHashTable.ts:368-429) ----------------

\* Variant of the deletion that splices the entry out of its bucket instead of
\* marking it; used to show that C31 and C32 depend on the tombstone.
RemoveAt(t, b, pos) ==
  [t EXCEPT !.buckets[b] = SubSeq(@, 1, pos - 1) \o SubSeq(@, pos + 1, Len(@))]

\* e.deleted = true on the entry at position pos of bucket b
MarkDeletedAt(t, b, pos) ==
  [t EXCEPT !.buckets[b][pos].deleted = TRUE]

RECURSIVE EliminarProbing(_, _, _)
EliminarProbing(t, key, i) ==
  IF i >= t.numBuckets THEN [t |-> t, res |-> "false"]
  ELSE LET b   == ProbeIndex(t, key, i) + 1
           pos == LiveIndex(t.buckets[b], key)
       IN IF pos # 0 THEN [t |-> MarkDeletedAt(t, b, pos), res |-> "true"]
          ELSE EliminarProbing(t, key, i + 1)

RECURSIVE EliminarChained(_, _, _, _)
EliminarChained(t, key, cursor, n) ==
  IF n >= t.numBuckets THEN [t |-> t, res |-> "false"]
  ELSE LET pos == LiveIndex(t.buckets[cursor + 1], key)
       IN IF pos # 0 THEN [t |-> MarkDeletedAt(t, cursor + 1, pos), res |-> "true"]
          ELSE EliminarChained(t, key, Mod(cursor + 1, t.numBuckets), n + 1)

RECURSIVE EliminarOverflowScan(_, _, _)
EliminarOverflowScan(t, key, i) ==
  IF i >= t.overflowSize THEN [t |-> t, res |-> "false"]
  ELSE LET ov == t.overflow[i + 1]
       IN IF ov # <<>> /\ ~ov[1].deleted /\ ov[1].key = key
            THEN [t |-> [t EXCEPT !.overflow[i + 1][1].deleted = TRUE], res |-> "true"]
            ELSE EliminarOverflowScan(t, key, i + 1)

EliminarSeparateOverflow(t, key) ==
  LET b   == Mod(t.primaryHash[key], t.numBuckets) + 1
      pos == LiveIndex(t.buckets[b], key)
  IN IF pos # 0 THEN [t |-> MarkDeletedAt(t, b, pos), res |-> "true"]
     ELSE EliminarOverflowScan(t, key, 0)

\* eliminar(key): [t, res], res in {"true", "false", "throw"}
Eliminar(t, key) ==
  IF t.strategy \in {"LINEAR_PROBING", "DOUBLE_HASHING"}
    THEN IF ProbeThrows(t) /\ t.numBuckets > 0
           THEN [t |-> t, res |-> "throw"]
           ELSE EliminarProbing(t, key, 0)
  ELSE IF t.strategy = "CHAINED_LINEAR"
    THEN EliminarChained(t, key, Mod(t.primaryHash[key], t.numBuckets), 0)
  ELSE IF t.strategy = "SEPARATE_OVERFLOW" THEN EliminarSeparateOverflow(t, key)
  ELSE [t |-> t, res |-> "false"]

\* dump() (MyHashTable.ts:445-462): the structure as the caller can inspect it.
\* The places that hold a live (deleted = false) entry of key:
\* <<"b", bucket, position>> in the base buckets and <<"o", slot, 1>> in the overflow area.
LivePlaces(t, key) ==
  {pl \in {<<"b", b, p>> : b \in 1..Len(t.buckets), p \in 1..t.bucketCapacity} :
        /\ pl[3] <= Len(t.buckets[pl[2]])
        /\ ~t.buckets[pl[2]][pl[3]].deleted
        /\ t.buckets[pl[2]][pl[3]].key = key}
  \cup
  {<<"o", i, 1>> : i \in {j \in 1..Len(t.overflow) :
        /\ t.overflow[j] # <<>>
        /\ ~t.overflow[j][1].deleted
        /\ t.overflow[j][1].key = key}}

\* ---------------- the callers of the static table ----------------

\* hash functions the callers supply: one under which all keys collide and a
\* negative-valued one that spreads them
PrimaryHashFns == {[k \in Keys |-> 0], [k \in Keys |-> 0 - k]}
SecondaryHashFns == {[k \in Keys |-> k]}

\* <<numBuckets, bucketCapacity>> pairs the callers configure
Shapes == {<<2, 2>>, <<3, 1>>}

\* The options the callers construct tables with. The strategy option is absent
\* (<<>>) or one of the four tags; overflowSize is absent or 2, and is left
\* absent only with SEPARATE_OVERFLOW, the one strategy that reads the overflow area.
StaticOptions ==
  {o \in [numBuckets     : {sh[1] : sh \in Shapes},
          bucketCapacity : {sh[2] : sh \in Shapes},
          primaryHash    : PrimaryHashFns,
          secondaryHash  : {<<f>> : f \in SecondaryHashFns},
          strategy       : {<<>>} \cup {<<s>> : s \in Strategies},
          overflowSize   : {<<>>, <<2>>}] :
     /\ <<o.numBuckets, o.bucketCapacity>> \in Shapes
     /\ o.overflowSize = <<>> => o.strategy = <<"SEPARATE_OVERFLOW">>}

(***************************************************************************)
(* AdvancedHashTable (src/unnamed/part_003)                                *)
(***************************************************************************)
Methods == {"CHAINING", "LINEAR_PROBING", "CHAINED_LINEAR_PROBING", "SEPARATE_OVERFLOW",
            "TABLE_ASSISTED_HASH", "EXTENDIBLE_HASH"}

\* The table object as one record.
Adv == [buckets |-> aBuckets, overflowArea |-> overflowArea, size |-> size,
        capacity |-> capacity, bucketCapacity |-> aBucketCapacity, method |-> method,
        loadFactor |-> loadFactor, maxLoadFactor |-> maxLoadFactor,
        directory |-> directory, globalDepth |-> globalDepth]

\* 2^n
RECURSIVE Pow2(_)
Pow2(n) == IF n <= 0 THEN 1 ELSE 2 * Pow2(n - 1)

\* Math.ceil(Math.log2(n)) for n >= 1: the least d with 2^d >= n
RECURSIVE CeilLog2From(_, _)
CeilLog2From(n, d) == IF Pow2(d) >= n THEN d ELSE CeilLog2From(n, d + 1)

CeilLog2(n) == CeilLog2From(n, 0)

Abs(x) == IF x < 0 THEN 0 - x ELSE x

\* A key is a string, given as the sequence of its UTF-16 code units.
\* hash(key): hash = ((hash << 5) - hash) + char; hash = hash & hash; Math.abs at the end.
\* The keys of the model are short enough for every intermediate value to stay
\* below 2^31, where the 32-bit conversions (<<, &) leave the value as it is.
RECURSIVE HashFrom(_, _, _)
HashFrom(keyString, i, h) ==
  IF i > Len(keyString) THEN h
  ELSE HashFrom(keyString, i + 1, (h * 32 - h) + keyString[i])

Hash(key) == Abs(HashFrom(key, 1, 0))

\* hash2(key): hash = 5381; hash = ((hash << 5) + hash) + char;
\* Math.abs(hash) % (capacity - 1) + 1   (capacity >= 2)
RECURSIVE Hash2From(_, _, _)
Hash2From(keyString, i, h) ==
  IF i > Len(keyString) THEN h
  ELSE Hash2From(keyString, i + 1, (h * 32 + h) + keyString[i])

\* Variant of hash2 reduced modulo capacity, without the shift into
\* [1, capacity-1]; used to show that C25 depends on `% (capacity - 1) + 1`.
Hash2Unshifted(t, key) == Abs(Hash2From(key, 1, 5381)) % t.capacity

Hash2(t, key) == (Abs(Hash2From(key, 1, 5381)) % (t.capacity - 1)) + 1

\* a fresh bucket { entries: [], overflowChain: undefined }
EmptyBucket == [entries |-> <<>>, overflowChain |-> <<>>]

\* initializeExtendibleHash()
InitializeExtendibleHash(t) ==
  LET gd == CeilLog2(t.capacity) IN
  [t EXCEPT !.globalDepth = gd,
            !.directory = [i \in 1..Pow2(gd) |->
                             [bucketIndex |-> (i - 1) % t.capacity, depth |-> gd]]]

\* initializeBuckets()
InitializeBuckets(t) ==
  LET t1 == [t EXCEPT !.buckets = [i \in 1..t.capacity |-> EmptyBucket]] IN
  IF t1.method = "EXTENDIBLE_HASH" THEN InitializeExtendibleHash(t1) ELSE t1

\* constructor(capacity, method, maxLoadFactor, bucketCapacity)
AdvConstructor(cap, m, mlf, bc) ==
  InitializeBuckets(
    [capacity |-> cap, bucketCapacity |-> bc, size |-> 0, method |-> m,
     maxLoadFactor |-> mlf, loadFactor |-> [num |-> 0, den |-> 1],
     overflowArea |-> <<>>, directory |-> <<>>, globalDepth |-> 0,
     buckets |-> <<>>])

\* getExtendibleHashIndex(key): directory[hash & mask]?.bucketIndex || 0
GetExtendibleHashIndex(t, key) ==
  LET directoryIndex == Hash(key) % Pow2(t.globalDepth) IN
  IF directoryIndex + 1 <= Len(t.directory)
    THEN t.directory[directoryIndex + 1].bucketIndex
    ELSE 0

\* getBucketIndex(key, attempt), 0-based
GetBucketIndex(t, key, attempt) ==
  LET primary == Hash(key) IN
  IF t.method = "LINEAR_PROBING" THEN (primary + attempt) % t.capacity
  ELSE IF t.method = "TABLE_ASSISTED_HASH"
    THEN (primary + attempt * Hash2(t, key)) % t.capacity
  ELSE IF t.method = "EXTENDIBLE_HASH" THEN GetExtendibleHashIndex(t, key)
  ELSE primary % t.capacity

\* entries.findIndex(e => e.key === key), 1-based; 0 when there is none
FindIndex(entries, key) ==
  LET hits == {i \in 1..Len(entries) : entries[i].key = key}
  IN IF hits = {} THEN 0 ELSE CHOOSE i \in hits : \A j \in hits : i <= j

\* entries.findIndex / find(e => e.key === key && !e.isDeleted), 1-based; 0 when none
FindLiveIndex(entries, key) ==
  LET hits == {i \in 1..Len(entries) : entries[i].key = key /\ ~entries[i].isDeleted}
  IN IF hits = {} THEN 0 ELSE CHOOSE i \in hits : \A j \in hits : i <= j

\* the entry object { key, value } (isDeleted unset)
NewEntry(key, value) == [key |-> key, value |-> value, isDeleted |-> FALSE]

\* bucket.overflowChain.entries.push(entry), creating the chain when it is undefined
PushChain(t, b, entry) ==
  [t EXCEPT !.buckets[b].overflowChain =
     IF @ = <<>> THEN <<(<<entry>>)>> ELSE <<Append(@[1], entry)>>]

\* setWithChaining(bucketIndex, entry): [t, added]
SetWithChaining(t, bucketIndex, entry) ==
  LET b == bucketIndex + 1
      existingIndex == FindIndex(t.buckets[b].entries, entry.key)
  IN IF existingIndex # 0
       THEN [t |-> [t EXCEPT !.buckets[b].entries[existingIndex] = entry],
             added |-> FALSE, err |-> "none"]
     ELSE IF Len(t.buckets[b].entries) >= t.bucketCapacity
       THEN [t |-> PushChain(t, b, entry), added |-> FALSE, err |-> "none"]
     ELSE [t |-> [t EXCEPT !.buckets[b].entries = Append(@, entry)],
           added |-> TRUE, err |-> "none"]

\* setWithLinearProbing(key, entry): the while loop from `attempt` on
RECURSIVE SetWithLinearProbing(_, _, _, _)
SetWithLinearProbing(t, key, entry, attempt) ==
  IF attempt >= t.capacity
    THEN [t |-> t, added |-> FALSE, err |-> "Tabla hash llena"]
  ELSE LET b  == GetBucketIndex(t, key, attempt) + 1
           es == t.buckets[b].entries
       IN IF Len(es) = 0 \/ es[1].isDeleted
            THEN [t |-> [t EXCEPT !.buckets[b].entries = <<entry>>],
                  added |-> TRUE, err |-> "none"]
          ELSE IF es[1].key = key
            THEN [t |-> [t EXCEPT !.buckets[b].entries[1] = entry],
                  added |-> FALSE, err |-> "none"]
          ELSE IF Len(es) >= t.bucketCapacity
            THEN SetWithLinearProbing(t, key, entry, attempt + 1)
          ELSE [t |-> [t EXCEPT !.buckets[b].entries = Append(@, entry)],
                added |-> TRUE, err |-> "none"]

\* setWithChainedLinearProbing(bucketIndex, entry)
SetWithChainedLinearProbing(t, bucketIndex, entry) ==
  LET b  == bucketIndex + 1
      es == t.buckets[b].entries
      existingIndex == FindIndex(es, entry.key)
  IN IF Len(es) = 0
       THEN [t |-> [t EXCEPT !.buckets[b].entries = Append(@, entry)],
             added |-> TRUE, err |-> "none"]
     ELSE IF existingIndex # 0
       THEN [t |-> [t EXCEPT !.buckets[b].entries[existingIndex] = entry],
             added |-> FALSE, err |-> "none"]
     ELSE IF Len(es) >= t.bucketCapacity
       THEN [t |-> PushChain(t, b, entry), added |-> FALSE, err |-> "none"]
     ELSE [t |-> [t EXCEPT !.buckets[b].entries = Append(@, entry)],
           added |-> TRUE, err |-> "none"]

\* setWithSeparateOverflow(bucketIndex, entry)
SetWithSeparateOverflow(t, bucketIndex, entry) ==
  LET b  == bucketIndex + 1
      es == t.buckets[b].entries
      existingIndex == FindIndex(es, entry.key)
  IN IF Len(es) = 0
       THEN [t |-> [t EXCEPT !.buckets[b].entries = Append(@, entry)],
             added |-> TRUE, err |-> "none"]
     ELSE IF existingIndex # 0
       THEN [t |-> [t EXCEPT !.buckets[b].entries[existingIndex] = entry],
             added |-> FALSE, err |-> "none"]
     ELSE IF Len(es) >= t.bucketCapacity
       THEN [t |-> PushChain([t EXCEPT !.overflowArea = Append(@, entry)], b, entry),
             added |-> FALSE, err |-> "none"]
     ELSE [t |-> [t EXCEPT !.buckets[b].entries = Append(@, entry)],
           added |-> TRUE, err |-> "none"]

\* setWithTableAssistedHash(key, entry): the while loop from `attempt` on
RECURSIVE SetWithTableAssistedHash(_, _, _, _)
SetWithTableAssistedHash(t, key, entry, attempt) ==
  IF attempt >= t.capacity
    THEN [t |-> t, added |-> FALSE, err |-> "Tabla hash llena"]
  ELSE LET b  == GetBucketIndex(t, key, attempt) + 1
           es == t.buckets[b].entries
       IN IF Len(es) = 0 \/ es[1].isDeleted
            THEN [t |-> [t EXCEPT !.buckets[b].entries = <<entry>>],
                  added |-> TRUE, err |-> "none"]
          ELSE IF es[1].key = key
            THEN [t |-> [t EXCEPT !.buckets[b].entries[1] = entry],
                  added |-> FALSE, err |-> "none"]
          ELSE IF Len(es) >= t.bucketCapacity
            THEN SetWithTableAssistedHash(t, key, entry, attempt + 1)
          ELSE [t |-> [t EXCEPT !.buckets[b].entries = Append(@, entry)],
                added |-> TRUE, err |-> "none"]

\* updateDirectory(oldBucketIndex, newBucketIndex): of the slots that point to the
\* old bucket, those with an even index keep it and those with an odd index get the new one
UpdateDirectory(t, oldBucketIndex, newBucketIndex) ==
  [t EXCEPT !.directory =
     [i \in 1..Len(t.directory) |->
        IF t.directory[i].bucketIndex = oldBucketIndex /\ (i - 1) % 2 # 0
          THEN [t.directory[i] EXCEPT !.bucketIndex = newBucketIndex]
          ELSE t.directory[i]]]

\* the redistribution loop of splitBucket: entry by entry, with the directory as
\* it is before updateDirectory runs
RECURSIVE Redistribute(_, _, _, _, _)
Redistribute(t, bucketIndex, newBucketIndex, es, i) ==
  IF i > Len(es) THEN t
  ELSE LET target == IF GetExtendibleHashIndex(t, es[i].key) = bucketIndex
                       THEN bucketIndex + 1 ELSE newBucketIndex + 1
       IN Redistribute([t EXCEPT !.buckets[target].entries = Append(@, es[i])],
                       bucketIndex, newBucketIndex, es, i + 1)

\* splitBucket(bucketIndex)
SplitBucket(t, bucketIndex) ==
  LET newBucketIndex == Len(t.buckets)
      es == t.buckets[bucketIndex + 1].entries
      t1 == [t EXCEPT !.buckets = Append(@, EmptyBucket)]
      t2 == [t1 EXCEPT !.buckets[bucketIndex + 1].entries = <<>>]
      t3 == Redistribute(t2, bucketIndex, newBucketIndex, es, 1)
  IN UpdateDirectory(t3, bucketIndex, newBucketIndex)

\* Number of nested setExtendible calls the call stack holds; one more raises
\* RangeError (the engine's limit is in the thousands: the model's is small).
MaxStack == 3

\* setExtendible(key, value), `depth` nested calls deep: [t, err]
RECURSIVE SetExtendible(_, _, _, _)
SetExtendible(t, key, value, depth) ==
  IF depth > MaxStack THEN [t |-> t, err |-> "RangeError"]
  ELSE LET bucketIndex == GetExtendibleHashIndex(t, key) IN
    IF bucketIndex + 1 > Len(t.buckets) THEN [t |-> t, err |-> "TypeError"]
    ELSE LET b  == bucketIndex + 1
             es == t.buckets[b].entries
             existingIndex == FindIndex(es, key)
         IN IF Len(es) = 0
              THEN [t |-> [t EXCEPT !.buckets[b].entries = Append(@, NewEntry(key, value)),
                                    !.size = @ + 1],
                    err |-> "none"]
            ELSE IF existingIndex # 0
              THEN [t |-> [t EXCEPT !.buckets[b].entries[existingIndex] = NewEntry(key, value)],
                    err |-> "none"]
            ELSE IF Len(es) >= t.bucketCapacity
              THEN SetExtendible(SplitBucket(t, bucketIndex), key, value, depth + 1)
            ELSE [t |-> [t EXCEPT !.buckets[b].entries = Append(@, NewEntry(key, value)),
                                  !.size = @ + 1],
                  err |-> "none"]

\* the part of entries() that one bucket contributes: its main entries that are
\* not tombstoned, then its overflow chain
RECURSIVE LiveOf(_)
LiveOf(es) ==
  IF es = <<>> THEN <<>>
  ELSE (IF es[1].isDeleted THEN <<>> ELSE <<[key |-> es[1].key, value |-> es[1].value]>>)
       \o LiveOf(Tail(es))

RECURSIVE PlainOf(_)
PlainOf(es) ==
  IF es = <<>> THEN <<>>
  ELSE <<[key |-> es[1].key, value |-> es[1].value]>> \o PlainOf(Tail(es))

ChainEntries(bucket) == IF bucket.overflowChain = <<>> THEN <<>> ELSE bucket.overflowChain[1]

\* entries(): from bucket b (1-based) on
RECURSIVE EntriesFrom(_, _)
EntriesFrom(t, b) ==
  IF b > Len(t.buckets) THEN <<>>
  ELSE LiveOf(t.buckets[b].entries) \o PlainOf(ChainEntries(t.buckets[b]))
       \o EntriesFrom(t, b + 1)

Entries(t) == EntriesFrom(t, 1)

\* updateLoadFactor(): loadFactor = size / (capacity * bucketCapacity)
UpdateLoadFactor(t) ==
  [t EXCEPT !.loadFactor = [num |-> t.size, den |-> t.capacity * t.bucketCapacity]]

\* loadFactor > maxLoadFactor (both denominators are positive)
LoadFactorExceeded(t) ==
  t.loadFactor.num * t.maxLoadFactor.den > t.maxLoadFactor.num * t.loadFactor.den

RECURSIVE Set(_, _, _)
RECURSIVE Resize(_, _)
RECURSIVE SetAll(_, _, _)

\* `for (const { key, value } of oldEntries) this.set(key, value)` from entry i on;
\* an exception of set ends the loop
SetAll(t, oldEntries, i) ==
  IF i > Len(oldEntries) THEN [t |-> t, err |-> "none"]
  ELSE LET r == Set(t, oldEntries[i].key, oldEntries[i].value)
       IN IF r.err # "none" THEN r ELSE SetAll(r.t, oldEntries, i + 1)

\* resize(newCapacity)
Resize(t, newCapacity) ==
  LET oldEntries == Entries(t)
      t1 == InitializeBuckets([t EXCEPT !.capacity = newCapacity, !.size = 0])
  IN SetAll(t1, oldEntries, 1)

\* Variant of resizeIfNeeded that never grows the table; used to show that C14
\* depends on the doubling.
ResizeNever(t) == [t |-> t, err |-> "none"]

\* resizeIfNeeded()
ResizeIfNeeded(t) ==
  IF LoadFactorExceeded(t) THEN Resize(t, t.capacity * 2) ELSE [t |-> t, err |-> "none"]

\* set(key, value): [t, err]; err is "none" when set returns normally
Set(t, key, value) ==
  IF t.method = "EXTENDIBLE_HASH" THEN SetExtendible(t, key, value, 1)
  ELSE LET entry == NewEntry(key, value)
           r == IF t.method = "CHAINING"
                  THEN SetWithChaining(t, GetBucketIndex(t, key, 0), entry)
                ELSE IF t.method = "LINEAR_PROBING"
                  THEN SetWithLinearProbing(t, key, entry, 0)
                ELSE IF t.method = "CHAINED_LINEAR_PROBING"
                  THEN SetWithChainedLinearProbing(t, GetBucketIndex(t, key, 0), entry)
                ELSE IF t.method = "SEPARATE_OVERFLOW"
                  THEN SetWithSeparateOverflow(t, GetBucketIndex(t, key, 0), entry)
                ELSE SetWithTableAssistedHash(t, key, entry, 0)
       IN IF r.err # "none" THEN [t |-> r.t, err |-> r.err]
          ELSE ResizeIfNeeded(UpdateLoadFactor(
                 IF r.added THEN [r.t EXCEPT !.size = @ + 1] ELSE r.t))

\* getExtendible(key): [val, err]; val is <<>> for undefined and <<v>> for v
GetExtendible(t, key) ==
  LET bucketIndex == GetExtendibleHashIndex(t, key) IN
  IF bucketIndex + 1 > Len(t.buckets) THEN [val |-> <<>>, err |-> "TypeError"]
  ELSE LET es == t.buckets[bucketIndex + 1].entries
           idx == FindIndex(es, key)
       IN [val |-> IF idx = 0 THEN <<>> ELSE <<es[idx].value>>, err |-> "none"]

\* get(key), non-directory methods: the while loop from `attempt` on
RECURSIVE GetLoop(_, _, _)
GetLoop(t, key, attempt) ==
  IF attempt >= t.capacity THEN <<>>
  ELSE LET bucket == t.buckets[GetBucketIndex(t, key, attempt) + 1]
           idx    == FindLiveIndex(bucket.entries, key)
           oidx   == FindIndex(ChainEntries(bucket), key)
       IN IF Len(bucket.entries) = 0 THEN <<>>
          ELSE IF idx # 0 THEN <<bucket.entries[idx].value>>
          ELSE IF oidx # 0 THEN <<ChainEntries(bucket)[oidx].value>>
          ELSE IF t.method = "CHAINING" THEN <<>>
          ELSE GetLoop(t, key, attempt + 1)

\* get(key): [val, err]
Get(t, key) ==
  IF t.method = "EXTENDIBLE_HASH" THEN GetExtendible(t, key)
  ELSE [val |-> GetLoop(t, key, 0), err |-> "none"]

\* splice(index, 1) on a sequence (index 1-based)
Splice(es, idx) == SubSeq(es, 1, idx - 1) \o SubSeq(es, idx + 1, Len(es))

\* deleteExtendible(key): [t, res, err]
DeleteExtendible(t, key) ==
  LET bucketIndex == GetExtendibleHashIndex(t, key) IN
  IF bucketIndex + 1 > Len(t.buckets) THEN [t |-> t, res |-> FALSE, err |-> "TypeError"]
  ELSE LET b == bucketIndex + 1
           idx == FindIndex(t.buckets[b].entries, key)
       IN IF idx # 0
            THEN [t |-> [t EXCEPT !.buckets[b].entries = Splice(@, idx), !.size = @ - 1],
                  res |-> TRUE, err |-> "none"]
            ELSE [t |-> t, res |-> FALSE, err |-> "none"]

\* delete(key), non-directory methods: the while loop from `attempt` on
RECURSIVE DeleteLoop(_, _, _)
DeleteLoop(t, key, attempt) ==
  IF attempt >= t.capacity THEN [t |-> t, res |-> FALSE, err |-> "none"]
  ELSE LET b    == GetBucketIndex(t, key, attempt) + 1
           es   == t.buckets[b].entries
           idx  == FindIndex(es, key)
           oidx == FindIndex(ChainEntries(t.buckets[b]), key)
       IN IF Len(es) = 0 THEN [t |-> t, res |-> FALSE, err |-> "none"]
          ELSE IF idx # 0
            THEN [t |-> IF t.method \in {"LINEAR_PROBING", "TABLE_ASSISTED_HASH"}
                          THEN [t EXCEPT !.buckets[b].entries[idx].isDeleted = TRUE,
                                         !.size = @ - 1]
                          ELSE [t EXCEPT !.buckets[b].entries = Splice(@, idx),
                                         !.size = @ - 1],
                  res |-> TRUE, err |-> "none"]
          ELSE IF oidx # 0
            THEN [t |-> [t EXCEPT !.buckets[b].overflowChain = <<Splice(@[1], oidx)>>,
                                  !.size = @ - 1],
                  res |-> TRUE, err |-> "none"]
          ELSE IF t.method = "CHAINING" THEN [t |-> t, res |-> FALSE, err |-> "none"]
          ELSE DeleteLoop(t, key, attempt + 1)

\* delete(key): [t, res, err]
Delete(t, key) ==
  IF t.method = "EXTENDIBLE_HASH" THEN DeleteExtendible(t, key)
  ELSE DeleteLoop(t, key, 0)

\* clear()
Clear(t) ==
  [t EXCEPT !.buckets = [i \in 1..t.capacity |-> EmptyBucket],
            !.overflowArea = <<>>,
            !.size = 0,
            !.loadFactor = [num |-> 0, den |-> 1]]

\* rehash(): [t, err]
Rehash(t) ==
  LET oldEntries == Entries(t)
  IN SetAll(InitializeBuckets(Clear(t)), oldEntries, 1)

\* setMethod(method): [t, err]
SetMethod(t, m) ==
  IF t.method # m
    THEN Rehash(InitializeBuckets([t EXCEPT !.method = m]))
    ELSE [t |-> t, err |-> "none"]

\* getSize()
GetSize(t) == t.size

(***************************************************************************)
(* HashTable (src/src/HashTable.ts): the basic table, chaining in arrays    *)
(***************************************************************************)

\* The table object as one record.
Basic == [buckets |-> hBuckets, size |-> hSize, capacity |-> hCapacity]

\* constructor(capacity)
BasicConstructor(cap) ==
  [capacity |-> cap, size |-> 0, buckets |-> [i \in 1..cap |-> <<>>]]

\* hash(key): the loop of AdvancedHashTable.hash, then Math.abs(hash) % capacity
BasicHash(t, key) == Abs(HashFrom(key, 1, 0)) % t.capacity

RECURSIVE BasicSet(_, _, _)
RECURSIVE BasicResize(_)
RECURSIVE BasicSetAll(_, _, _)

\* Variant of set that never resizes; used to show that C27 depends on the
\* resize at the end of set.
BasicSetNoResize(t, key, value) ==
  LET b   == BasicHash(t, key) + 1
      idx == FindIndex(t.buckets[b], key)
  IN IF idx # 0
       THEN [t EXCEPT !.buckets[b][idx].value = value]
       ELSE [t EXCEPT !.buckets[b] = Append(@, [key |-> key, value |-> value]),
                      !.size = @ + 1]

\* set(key, value)
BasicSet(t, key, value) ==
  LET b   == BasicHash(t, key) + 1
      idx == FindIndex(t.buckets[b], key)
  IN IF idx # 0
       THEN [t EXCEPT !.buckets[b][idx].value = value]
       ELSE LET t1 == [t EXCEPT !.buckets[b] = Append(@, [key |-> key, value |-> value]),
                                !.size = @ + 1]
            IN IF t1.size * 4 > 3 * t1.capacity  \* size / capacity > 0.75
                 THEN BasicResize(t1)
                 ELSE t1

\* the items of oldBuckets in the order of `for (const bucket of oldBuckets)
\* for (const item of bucket)`, from bucket b on
RECURSIVE BasicItemsFrom(_, _)
BasicItemsFrom(bs, b) ==
  IF b > Len(bs) THEN <<>> ELSE bs[b] \o BasicItemsFrom(bs, b + 1)

\* `this.set(item.key, item.value)` for the items from position i on
BasicSetAll(t, items, i) ==
  IF i > Len(items) THEN t
  ELSE BasicSetAll(BasicSet(t, items[i].key, items[i].value), items, i + 1)

\* resize()
BasicResize(t) ==
  LET oldBuckets == t.buckets
      t1 == [capacity |-> t.capacity * 2,
             buckets  |-> [i \in 1..(t.capacity * 2) |-> <<>>],
             size     |-> 0]
  IN BasicSetAll(t1, BasicItemsFrom(oldBuckets, 1), 1)

\* get(key): <<>> for undefined, <<v>> for the value v
BasicGet(t, key) ==
  LET bucket == t.buckets[BasicHash(t, key) + 1]
      idx    == FindIndex(bucket, key)
  IN IF idx = 0 THEN <<>> ELSE <<bucket[idx].value>>

\* Variant of delete that leaves size as it is; used to show that C26 depends
\* on the size-- of delete.
BasicDeleteKeepSize(t, key) ==
  LET b   == BasicHash(t, key) + 1
      idx == FindIndex(t.buckets[b], key)
  IN IF idx # 0
       THEN [t |-> [t EXCEPT !.buckets[b] = Splice(@, idx)], res |-> TRUE]
       ELSE [t |-> t, res |-> FALSE]

\* delete(key): [t, res]
BasicDelete(t, key) ==
  LET b   == BasicHash(t, key) + 1
      idx == FindIndex(t.buckets[b], key)
  IN IF idx # 0
       THEN [t |-> [t EXCEPT !.buckets[b] = Splice(@, idx), !.size = @ - 1], res |-> TRUE]
       ELSE [t |-> t, res |-> FALSE]

\* getSize()
BasicGetSize(t) == t.size

\* clear()
BasicClear(t) ==
  [t EXCEPT !.buckets = [i \in 1..t.capacity |-> <<>>], !.size = 0]

\* ---------------- the callers of the advanced table ----------------

\* The keys the callers use: the strings "a", "i" and "c", as code units. Their
\* hashes 97, 105 and 99 are odd; "a" and "i" agree in the 3 low-order bits, "c"
\* differs from them in bit 1; at capacity 4 hash2 is 2 for "a" and 1 for "i", "c".
AdvKeyCodes == <<97, 105, 99>>
AdvKeys == {<<AdvKeyCodes[i]>> : i \in 1..Len(AdvKeyCodes)}

\* constructor arguments the callers pass
AdvCapacities == {2, 3}
AdvBucketCapacities == {1, 2}
\* maxLoadFactor = 0.75, the default of the constructor
DefaultMaxLoadFactor == [num |-> 3, den |-> 4]

\* Bounds on the calls: set is called while the table has at most MaxBuckets
\* buckets and fewer than MaxEntries stored entries (and overflowArea entries);
\* delete is called while size > -MaxDebt.
MaxBuckets == 4
MaxEntries == 3
MaxDebt == 1

\* all stored entries: main buckets (tombstones included) and overflow chains
RECURSIVE StoredCount(_, _)
StoredCount(t, b) ==
  IF b > Len(t.buckets) THEN 0
  ELSE Len(t.buckets[b].entries) + Len(ChainEntries(t.buckets[b])) + StoredCount(t, b + 1)

AdvSet(t) ==
  /\ aBuckets' = t.buckets
  /\ overflowArea' = t.overflowArea
  /\ size' = t.size
  /\ capacity' = t.capacity
  /\ aBucketCapacity' = t.bucketCapacity
  /\ method' = t.method
  /\ loadFactor' = t.loadFactor
  /\ maxLoadFactor' = t.maxLoadFactor
  /\ directory' = t.directory
  /\ globalDepth' = t.globalDepth

AdvIs(t) ==
  /\ aBuckets = t.buckets
  /\ overflowArea = t.overflowArea
  /\ size = t.size
  /\ capacity = t.capacity
  /\ aBucketCapacity = t.bucketCapacity
  /\ method = t.method
  /\ loadFactor = t.loadFactor
  /\ maxLoadFactor = t.maxLoadFactor
  /\ directory = t.directory
  /\ globalDepth = t.globalDepth

StaticIs(t) ==
  /\ buckets = t.buckets
  /\ overflow = t.overflow
  /\ strategy = t.strategy
  /\ primaryHash = t.primaryHash
  /\ secondaryHash = t.secondaryHash
  /\ bucketCapacity = t.bucketCapacity
  /\ numBuckets = t.numBuckets
  /\ overflowSize = t.overflowSize

\* the table that is not under study stays as constructed
IdleStatic ==
  Constructor([numBuckets |-> 2, bucketCapacity |-> 1, primaryHash |-> [k \in Keys |-> 0],
               secondaryHash |-> <<>>, strategy |-> <<>>, overflowSize |-> <<>>])
IdleAdv == AdvConstructor(2, "CHAINING", DefaultMaxLoadFactor, 1)
IdleBasic == BasicConstructor(1)

BasicIs(t) ==
  /\ hBuckets = t.buckets
  /\ hSize = t.size
  /\ hCapacity = t.capacity

BasicSetTo(t) ==
  /\ hBuckets' = t.buckets
  /\ hSize' = t.size
  /\ hCapacity' = t.capacity

InitStatic ==
  /\ \E opts \in StaticOptions : StaticIs(Constructor(opts))
  /\ AdvIs(IdleAdv)
  /\ BasicIs(IdleBasic)

InitAdvanced ==
  /\ \E cap \in AdvCapacities, m \in Methods, bc \in AdvBucketCapacities :
       AdvIs(AdvConstructor(cap, m, DefaultMaxLoadFactor, bc))
  /\ StaticIs(IdleStatic)
  /\ BasicIs(IdleBasic)

StaticConfigUnchanged ==
  UNCHANGED <<strategy, primaryHash, secondaryHash, bucketCapacity, numBuckets, overflowSize>>

\* a call insertar(k, v)
InsertarCall ==
  \E k \in Keys, v \in Values :
    LET r == Insertar(Tbl, k, v) IN
      /\ buckets' = r.t.buckets
      /\ overflow' = r.t.overflow
      /\ StaticConfigUnchanged
      /\ UNCHANGED <<avars, bvars>>

\* a call eliminar(k)
EliminarCall ==
  \E k \in Keys :
    LET r == Eliminar(Tbl, k) IN
      /\ buckets' = r.t.buckets
      /\ overflow' = r.t.overflow
      /\ StaticConfigUnchanged
      /\ UNCHANGED <<avars, bvars>>

\* a call set(k, v); when set throws, the table keeps what the call had changed
SetCall ==
  /\ Len(aBuckets) <= MaxBuckets
  /\ StoredCount(Adv, 1) < MaxEntries
  /\ Len(overflowArea) < MaxEntries
  /\ \E k \in AdvKeys, v \in Values : AdvSet(Set(Adv, k, v).t)
  /\ UNCHANGED <<svars, bvars>>

\* a call delete(k)
DeleteCall ==
  /\ size + MaxDebt > 0
  /\ \E k \in AdvKeys : AdvSet(Delete(Adv, k).t)
  /\ UNCHANGED <<svars, bvars>>

\* a call clear()
ClearCall ==
  /\ AdvSet(Clear(Adv))
  /\ UNCHANGED <<svars, bvars>>

\* a call setMethod(m)
SetMethodCall ==
  /\ \E m \in Methods : AdvSet(SetMethod(Adv, m).t)
  /\ UNCHANGED <<svars, bvars>>

NextStatic == InsertarCall \/ EliminarCall

SpecStatic == InitStatic /\ [][NextStatic]_vars

NextAdvanced == SetCall \/ DeleteCall \/ ClearCall \/ SetMethodCall

SpecAdvanced == InitAdvanced /\ [][NextAdvanced]_vars

(***************************************************************************)
(* The collision scenarios of the static table: a caller inserts distinct   *)
(* keys 1, 2, 3, ... that all hash to bucket 0 into a LINEAR_PROBING table  *)
(* of 5 buckets of capacity 2, or into a SEPARATE_OVERFLOW table of 3       *)
(* buckets of capacity 2 with 5 overflow slots.                             *)
(***************************************************************************)

\* number of distinct colliding keys the caller has at hand
MaxScenarioKeys == 11
ScenarioKeys == 1..MaxScenarioKeys

\* primaryHash of the scenarios: a multiple of 15, so bucket 0 modulo 5 and modulo 3
ScenarioHash == [k \in ScenarioKeys |-> 15 * k]

ScenarioOptions ==
  {[numBuckets |-> 5, bucketCapacity |-> 2, primaryHash |-> ScenarioHash,
    secondaryHash |-> <<>>, strategy |-> <<"LINEAR_PROBING">>, overflowSize |-> <<>>],
   [numBuckets |-> 3, bucketCapacity |-> 2, primaryHash |-> ScenarioHash,
    secondaryHash |-> <<>>, strategy |-> <<"SEPARATE_OVERFLOW">>, overflowSize |-> <<5>>]}

\* dump(): the number of entries stored in the base buckets and the overflow area
RECURSIVE BucketCount(_, _)
BucketCount(t, b) ==
  IF b > Len(t.buckets) THEN 0 ELSE Len(t.buckets[b]) + BucketCount(t, b + 1)

StoredEntries(t) ==
  BucketCount(t, 1) + Cardinality({i \in 1..Len(t.overflow) : t.overflow[i] # <<>>})

InitScenario ==
  /\ \E opts \in ScenarioOptions : StaticIs(Constructor(opts))
  /\ AdvIs(IdleAdv)
  /\ BasicIs(IdleBasic)

\* a call insertar(k, v) with the next key not inserted so far: key n + 1 when
\* n keys are stored (a rejected key is offered again)
InsertarNextCall ==
  /\ StoredEntries(Tbl) < MaxScenarioKeys
  /\ \E v \in Values :
       LET r == Insertar(Tbl, StoredEntries(Tbl) + 1, v) IN
         /\ buckets' = r.t.buckets
         /\ overflow' = r.t.overflow
  /\ StaticConfigUnchanged
  /\ UNCHANGED <<avars, bvars>>

NextScenario == InsertarNextCall

SpecScenario == InitScenario /\ [][NextScenario]_vars

(***************************************************************************)
(* The split scenario of the advanced table: a caller inserts distinct keys *)
(* whose hashes agree in the 3 low-order bits into an EXTENDIBLE_HASH table *)
(* of capacity 4 and bucketCapacity 4.                                      *)
(***************************************************************************)

\* two families of one-character keys: "a", "i", "q", "y", "A" (hash = 1 mod 8)
\* and "b", "j", "r", "z", "B" (hash = 2 mod 8)
ExtKeyFamilies ==
  {{<<97>>, <<105>>, <<113>>, <<121>>, <<65>>},
   {<<98>>, <<106>>, <<114>>, <<122>>, <<66>>}}

\* keys(): the keys of the entries the table lists
StoredKeys(t) == {Entries(t)[i].key : i \in 1..Len(Entries(t))}

InitExtendible ==
  /\ AdvIs(AdvConstructor(4, "EXTENDIBLE_HASH", DefaultMaxLoadFactor, 4))
  /\ StaticIs(IdleStatic)
  /\ BasicIs(IdleBasic)

\* a call set(k, v) with a key of the family in use that is not stored yet
SetNewCall ==
  /\ Len(aBuckets) <= MaxBuckets
  /\ \E fam \in ExtKeyFamilies :
       /\ StoredKeys(Adv) \subseteq fam
       /\ \E k \in fam \ StoredKeys(Adv), v \in Values : AdvSet(Set(Adv, k, v).t)
  /\ UNCHANGED <<svars, bvars>>

NextExtendible == SetNewCall

SpecExtendible == InitExtendible /\ [][NextExtendible]_vars

(***************************************************************************)
(* The configurations of the static table: the constructor stores whatever  *)
(* options it is given (it validates nothing and has no throw statement),   *)
(* so a caller can hold a DOUBLE_HASHING table without secondaryHash or a   *)
(* table whose strategy is not one of the four tags of the enum.            *)
(***************************************************************************)

\* a strategy identifier outside the CollisionStrategy enum
UnknownStrategy == "QUADRATIC_PROBING"

\* <<numBuckets, bucketCapacity>> pairs: a single bucket, a prime and a
\* composite number of buckets
ConfigShapes == {<<1, 1>>, <<2, 2>>, <<4, 1>>}

\* secondary hash functions: an even-valued one and a negative-valued one
ConfigSecondaryHashFns == {[k \in Keys |-> 2 * k], [k \in Keys |-> 0 - (3 * k)]}

\* The options the callers pass: any strategy identifier; secondaryHash absent,
\* or present with DOUBLE_HASHING (the one strategy that reads it); one overflow
\* slot.
ConfigOptions ==
  {o \in [numBuckets     : {sh[1] : sh \in ConfigShapes},
          bucketCapacity : {sh[2] : sh \in ConfigShapes},
          primaryHash    : PrimaryHashFns,
          secondaryHash  : {<<>>} \cup {<<f>> : f \in ConfigSecondaryHashFns},
          strategy       : {<<s>> : s \in Strategies \cup {UnknownStrategy}},
          overflowSize   : {<<1>>}] :
     /\ <<o.numBuckets, o.bucketCapacity>> \in ConfigShapes
     /\ o.secondaryHash # <<>> => o.strategy = <<"DOUBLE_HASHING">>}

InitConfig ==
  /\ \E opts \in ConfigOptions : StaticIs(Constructor(opts))
  /\ AdvIs(IdleAdv)
  /\ BasicIs(IdleBasic)

NextConfig == InsertarCall \/ EliminarCall

SpecConfig == InitConfig /\ [][NextConfig]_vars

(***************************************************************************)
(* The probe steps: a DOUBLE_HASHING static table and a TABLE_ASSISTED_HASH *)
(* advanced table side by side; the callers insert into both.               *)
(***************************************************************************)

\* Static side: every shape and secondary hash of ConfigOptions, with the
\* primary hash under which all keys collide; advanced side: every capacity,
\* one entry per bucket.
InitSteps ==
  /\ \E opts \in ConfigOptions :
       /\ opts.strategy = <<"DOUBLE_HASHING">>
       /\ opts.secondaryHash # <<>>
       /\ opts.primaryHash = [k \in Keys |-> 0]
       /\ StaticIs(Constructor(opts))
  /\ \E cap \in AdvCapacities :
       AdvIs(AdvConstructor(cap, "TABLE_ASSISTED_HASH", DefaultMaxLoadFactor, 1))
  /\ BasicIs(IdleBasic)

NextSteps == InsertarCall \/ SetCall

SpecSteps == InitSteps /\ [][NextSteps]_vars

(***************************************************************************)
(* The callers of the basic table                                           *)
(***************************************************************************)

\* The keys the callers use: the strings "a", "i", "c" and "b" (hashes 97, 105,
\* 99 and 98: three odd ones, two of which agree modulo 8, and an even one).
BasicKeyCodes == <<97, 105, 99, 98>>
BasicKeys == {<<BasicKeyCodes[i]>> : i \in 1..Len(BasicKeyCodes)}

\* the capacities the callers construct the table with
BasicCapacities == {1, 2, 3}

InitBasic ==
  /\ \E cap \in BasicCapacities : BasicIs(BasicConstructor(cap))
  /\ StaticIs(IdleStatic)
  /\ AdvIs(IdleAdv)

\* a call set(k, v)
BasicSetCall ==
  /\ \E k \in BasicKeys, v \in Values : BasicSetTo(BasicSet(Basic, k, v))
  /\ UNCHANGED <<svars, avars>>

\* a call delete(k)
BasicDeleteCall ==
  /\ \E k \in BasicKeys : BasicSetTo(BasicDelete(Basic, k).t)
  /\ UNCHANGED <<svars, avars>>

\* a call clear()
BasicClearCall ==
  /\ BasicSetTo(BasicClear(Basic))
  /\ UNCHANGED <<svars, avars>>

NextBasic == BasicSetCall \/ BasicDeleteCall \/ BasicClearCall

SpecBasic == InitBasic /\ [][NextBasic]_vars

(***************************************************************************)
(* The lifetime of the entries of the static table: small tables under      *)
(* every strategy, filled, emptied by eliminar and filled again.            *)
(***************************************************************************)

\* <<numBuckets, bucketCapacity>> pairs: two buckets of one entry, one bucket
\* of two entries, three buckets of one entry
LifetimeShapes == {<<2, 1>>, <<1, 2>>, <<3, 1>>}

\* The options the callers pass: every strategy, both primary hash functions,
\* a secondary hash and two overflow slots.
LifetimeOptions ==
  {o \in [numBuckets     : {sh[1] : sh \in LifetimeShapes},
          bucketCapacity : {sh[2] : sh \in LifetimeShapes},
          primaryHash    : PrimaryHashFns,
          secondaryHash  : {<<f>> : f \in SecondaryHashFns},
          strategy       : {<<s>> : s \in Strategies},
          overflowSize   : {<<2>>}] :
     <<o.numBuckets, o.bucketCapacity>> \in LifetimeShapes}

InitLifetime ==
  /\ \E opts \in LifetimeOptions : StaticIs(Constructor(opts))
  /\ AdvIs(IdleAdv)
  /\ BasicIs(IdleBasic)

NextLifetime == InsertarCall \/ EliminarCall

SpecLifetime == InitLifetime /\ [][NextLifetime]_vars

(***************************************************************************)
(* Observations used by the properties                                     *)
(***************************************************************************)

\* getDebugInfo() / entries(): the places of the advanced table that hold a live
\* entry of key: <<bucket, "main", position>> for a main-bucket entry with
\* isDeleted unset, <<bucket, "chain", position>> for an overflow-chain entry.
AdvLivePlaces(t, key) ==
  {pl \in {<<b, "main", p>> : b \in 1..Len(t.buckets), p \in 1..(MaxEntries + 1)} :
     /\ pl[3] <= Len(t.buckets[pl[1]].entries)
     /\ t.buckets[pl[1]].entries[pl[3]].key = key
     /\ ~t.buckets[pl[1]].entries[pl[3]].isDeleted}
  \cup
  {pl \in {<<b, "chain", p>> : b \in 1..Len(t.buckets), p \in 1..(MaxEntries + 1)} :
     /\ pl[3] <= Len(ChainEntries(t.buckets[pl[1]]))
     /\ ChainEntries(t.buckets[pl[1]])[pl[3]].key = key}

\* the static table holds a tombstone of key in bucket b (1-based)
HasTombstone(t, b, key) ==
  \E p \in 1..Len(t.buckets[b]) : t.buckets[b][p].deleted /\ t.buckets[b][p].key = key

(***************************************************************************)
(* Properties of StaticHashTable (checked under SpecStatic)                *)
(***************************************************************************)

\* C1: under every strategy, after any sequence of insertar and eliminar calls,
\* each key has at most one entry with deleted = false among all base buckets
\* and the overflow area combined.
C1_KeyUniqueness ==
  \A k \in Keys : Cardinality(LivePlaces(Tbl, k)) <= 1

\* C2: whenever insertar(k, v) returns true, buscar(k) returns v, and it still
\* returns v after a later insertar or eliminar on another key.
C2_RoundTrip ==
  \A k \in Keys, v \in Values :
    LET r == Insertar(Tbl, k, v) IN
      r.res = "true" =>
        /\ Buscar(r.t, k) = <<v>>
        /\ \A k2 \in Keys \ {k} :
             /\ Buscar(Eliminar(r.t, k2).t, k) = <<v>>
             /\ \A v2 \in Values : Buscar(Insertar(r.t, k2, v2).t, k) = <<v>>

\* C7: eliminar(k) returns true if and only if a non-deleted entry of k existed
\* immediately before the call (iff buscar(k) would have found k), and a second
\* eliminar(k) with no insertar(k, _) in between (directly, or after a call on
\* another key) returns false.
C7_EliminarResult ==
  \A k \in Keys :
    LET r == Eliminar(Tbl, k) IN
      /\ (r.res = "true") <=> (LivePlaces(Tbl, k) # {})
      /\ (r.res = "true") <=> (Buscar(Tbl, k) # <<>>)
      /\ Eliminar(r.t, k).res = "false"
      /\ \A k2 \in Keys \ {k} :
           /\ Eliminar(Eliminar(r.t, k2).t, k).res = "false"
           /\ \A v2 \in Values : Eliminar(Insertar(r.t, k2, v2).t, k).res = "false"

\* C8: after eliminar(k) returns true, buscar(k) returns null, and it still
\* returns null after later calls that are not an insertar(k, _) returning true.
C8_DeletedIsAbsent ==
  \A k \in Keys :
    LET r == Eliminar(Tbl, k) IN
      r.res = "true" =>
        /\ Buscar(r.t, k) = <<>>
        /\ \A k2 \in Keys \ {k} :
             /\ Buscar(Eliminar(r.t, k2).t, k) = <<>>
             /\ \A v2 \in Values : Buscar(Insertar(r.t, k2, v2).t, k) = <<>>
        /\ \A v \in Values :
             Insertar(r.t, k, v).res = "false" => Buscar(Insertar(r.t, k, v).t, k) = <<>>

\* C9: under LINEAR_PROBING and DOUBLE_HASHING, after eliminar(k), buscar(k2)
\* for any other stored key k2 still returns k2's value, also when k2 lies
\* further along a probe sequence that passes through the bucket of k's tombstone.
C9_TombstoneOpacity ==
  strategy \in {"LINEAR_PROBING", "DOUBLE_HASHING"} =>
    \A k \in Keys, k2 \in Keys :
      (k2 # k /\ Buscar(Tbl, k2) # <<>>) =>
        Buscar(Eliminar(Tbl, k).t, k2) = Buscar(Tbl, k2)

\* C9 witness: a probing table after an eliminar(k): k's tombstone sits in a
\* bucket of k2's probe sequence and the live k2 sits in a later bucket of it.
C9_Witness ==
  /\ strategy \in {"LINEAR_PROBING", "DOUBLE_HASHING"}
  /\ \E k \in Keys, k2 \in Keys :
       /\ k2 # k
       /\ Buscar(Tbl, k) = <<>>
       /\ Buscar(Tbl, k2) # <<>>
       /\ Eliminar(Tbl, k).res = "false"
       /\ \E i \in 0..(numBuckets - 1), j \in 0..(numBuckets - 1) :
            /\ i < j
            /\ HasTombstone(Tbl, ProbeIndex(Tbl, k2, i) + 1, k)
            /\ LiveIndex(buckets[ProbeIndex(Tbl, k2, j) + 1], k2) # 0
            /\ \A i2 \in 0..(j - 1) : LiveIndex(buckets[ProbeIndex(Tbl, k2, i2) + 1], k2) = 0

\* C11: with a recognized strategy (and a secondaryHash under DOUBLE_HASHING)
\* insertar never raises, and when it returns false the table (all buckets, the
\* overflow area, every deleted flag) is exactly what it was before the call.
C11_InsertarFailsCleanly ==
  (strategy \in Strategies /\ (strategy = "DOUBLE_HASHING" => secondaryHash # <<>>)) =>
    \A k \in Keys, v \in Values :
      LET r == Insertar(Tbl, k, v) IN
        /\ r.res \in {"true", "false"}
        /\ r.res = "false" => r.t = Tbl

\* C11 witness: a table holding a live entry in which insertar of some key finds
\* no room and returns false.
C11_Witness ==
  /\ \E k \in Keys : LivePlaces(Tbl, k) # {}
  /\ \E k \in Keys, v \in Values : Insertar(Tbl, k, v).res = "false"

\* C13: storage never grows: the number of base buckets equals numBuckets,
\* every base bucket holds at most bucketCapacity entries (tombstones included),
\* and the overflow area has exactly overflowSize slots.
C13_StorageFixed ==
  /\ Len(buckets) = numBuckets
  /\ \A b \in 1..Len(buckets) : Len(buckets[b]) <= bucketCapacity
  /\ Len(overflow) = overflowSize

\* C13 witness: every base bucket is filled to bucketCapacity and at least one
\* of the stored entries is a tombstone.
C13_Witness ==
  /\ \A b \in 1..Len(buckets) : Len(buckets[b]) = bucketCapacity
  /\ \E b \in 1..Len(buckets), k \in Keys : HasTombstone(Tbl, b, k)

\* C19: under SEPARATE_OVERFLOW, when the base bucket of a new key is full,
\* insertar stores the key in the lowest-indexed overflow slot that is empty or
\* holds a tombstoned entry (of any key), and returns false only when no
\* overflow slot is empty or tombstoned.
C19_OverflowSlotReuse ==
  strategy = "SEPARATE_OVERFLOW" =>
    \A k \in Keys, v \in Values :
      LET base   == Mod(primaryHash[k], numBuckets) + 1
          usable == {i \in 1..Len(overflow) : overflow[i] = <<>> \/ overflow[i][1].deleted}
          r      == Insertar(Tbl, k, v)
      IN (LivePlaces(Tbl, k) = {} /\ Len(buckets[base]) >= bucketCapacity) =>
           /\ usable = {} <=> r.res = "false"
           /\ usable # {} =>
                LET first == CHOOSE i \in usable : \A j \in usable : i <= j
                IN /\ r.t.overflow[first] # <<>>
                   /\ r.t.overflow[first][1].key = k
                   /\ r.t.overflow[first][1].value = v
                   /\ ~r.t.overflow[first][1].deleted

(***************************************************************************)
(* Properties of AdvancedHashTable (checked under SpecAdvanced)            *)
(***************************************************************************)

\* C3: under CHAINING, LINEAR_PROBING, CHAINED_LINEAR_PROBING, SEPARATE_OVERFLOW
\* and TABLE_ASSISTED_HASH, after set(k, v) returns, get(k) returns v, and it
\* still returns v after a later set or delete on another key.
C3_RoundTrip ==
  method # "EXTENDIBLE_HASH" =>
    \A k \in AdvKeys, v \in Values :
      LET r == Set(Adv, k, v) IN
        r.err = "none" =>
          /\ Get(r.t, k) = [val |-> <<v>>, err |-> "none"]
          /\ \A k2 \in AdvKeys \ {k} :
               /\ Delete(r.t, k2).err = "none" => Get(Delete(r.t, k2).t, k).val = <<v>>
               /\ \A v2 \in Values :
                    Set(r.t, k2, v2).err = "none" => Get(Set(r.t, k2, v2).t, k).val = <<v>>

\* C4: under every method, after any sequence of set and delete calls, each key
\* has at most one entry with isDeleted unset among all main-bucket entries and
\* all overflow chains combined.
C4_KeyUniqueness ==
  \A k \in AdvKeys : Cardinality(AdvLivePlaces(Adv, k)) <= 1

\* C5: under EXTENDIBLE_HASH, a set that returns makes its key retrievable with
\* the value set, leaves every other retrievable key retrievable with its value
\* (also when the set splits a bucket), and every stored entry lies in the
\* bucket the directory maps its key to.
C5_ExtendibleRetrievable ==
  method = "EXTENDIBLE_HASH" =>
    /\ \A b \in 1..Len(aBuckets) : \A p \in 1..Len(aBuckets[b].entries) :
         GetExtendibleHashIndex(Adv, aBuckets[b].entries[p].key) = b - 1
    /\ \A k \in AdvKeys, v \in Values :
         LET r == Set(Adv, k, v) IN
           r.err = "none" =>
             /\ Get(r.t, k) = [val |-> <<v>>, err |-> "none"]
             /\ \A k2 \in AdvKeys \ {k} :
                  Get(Adv, k2).val # <<>> => Get(r.t, k2) = Get(Adv, k2)

\* C6: setMethod(m') with m' different from the current method keeps the
\* contents: every key k with get(k) = v before the call has get(k) = v after
\* it, and getSize() is unchanged.
C6_SetMethodKeepsContents ==
  \A m \in Methods \ {method} :
    LET r == SetMethod(Adv, m) IN
      /\ GetSize(r.t) = GetSize(Adv)
      /\ \A k \in AdvKeys : Get(Adv, k).val # <<>> => Get(r.t, k) = Get(Adv, k)

\* C10: delete(k) returns true if and only if a live (not tombstoned) entry of
\* k existed immediately before the call; when it returns false the table is
\* unchanged; under LINEAR_PROBING and TABLE_ASSISTED_HASH a second delete(k)
\* right after the first returns false.
C10_DeleteResult ==
  \A k \in AdvKeys :
    LET r == Delete(Adv, k) IN
      r.err = "none" =>
        /\ r.res <=> (AdvLivePlaces(Adv, k) # {})
        /\ ~r.res => r.t = Adv
        /\ method \in {"LINEAR_PROBING", "TABLE_ASSISTED_HASH"} => ~Delete(r.t, k).res

\* C12: set is infallible: after any sequence of set and delete calls, set(k, v)
\* returns normally; it raises neither 'Tabla hash llena' nor a stack overflow.
C12_SetInfallible ==
  \A k \in AdvKeys, v \in Values :
    Set(Adv, k, v).err \notin {"Tabla hash llena", "RangeError"}

C15_GrowthKeepsContents ==
  method # "EXTENDIBLE_HASH" =>
    \A k \in AdvKeys, v \in Values :
      LET r == Set(Adv, k, v) IN
        (r.err = "none" /\ r.t.capacity # capacity) =>
          /\ Get(r.t, k) = [val |-> <<v>>, err |-> "none"]
          /\ \A k2 \in AdvKeys \ {k} : Get(r.t, k2) = Get(Adv, k2)

\* C16: after clear(), under every method and from every reachable state,
\* getSize() is 0, get(k) returns undefined for every key without raising, and a
\* following set, get or delete behaves as on a freshly constructed table of the
\* same method, capacity, maxLoadFactor and bucketCapacity.
C16_ClearResets ==
  LET c     == Clear(Adv)
      fresh == AdvConstructor(capacity, method, maxLoadFactor, aBucketCapacity)
  IN /\ GetSize(c) = 0
     /\ \A k \in AdvKeys :
          /\ Get(c, k) = [val |-> <<>>, err |-> "none"]
          /\ Delete(c, k).err = "none" /\ ~Delete(c, k).res
          /\ \A v \in Values :
               /\ Set(c, k, v).err = Set(fresh, k, v).err
               /\ Get(Set(c, k, v).t, k) = Get(Set(fresh, k, v).t, k)
               /\ GetSize(Set(c, k, v).t) = GetSize(Set(fresh, k, v).t)

(***************************************************************************)
(* Properties of the collision scenarios (checked under SpecScenario)      *)
(***************************************************************************)

\* the LINEAR_PROBING scenario: 5 buckets of capacity 2
IsLinearScenario ==
  strategy = "LINEAR_PROBING" /\ numBuckets = 5 /\ bucketCapacity = 2

\* the SEPARATE_OVERFLOW scenario: 3 buckets of capacity 2, 5 overflow slots
IsOverflowScenario ==
  strategy = "SEPARATE_OVERFLOW" /\ numBuckets = 3 /\ bucketCapacity = 2 /\ overflowSize = 5

\* C17 as stated: in the LINEAR_PROBING scenario the first 7 insertions of
\* distinct keys hashing to bucket 0 succeed and the insertion of an 8th such
\* key returns false (table full).
C17_EighthKeyRejected ==
  IsLinearScenario =>
    \A v \in Values :
      LET n == StoredEntries(Tbl) IN
        /\ n < 7 => Insertar(Tbl, n + 1, v).res = "true"
        /\ n = 7 => Insertar(Tbl, 8, v).res = "false"

\* C17 amended: in the LINEAR_PROBING scenario the first 2 keys are stored in
\* bucket 0 and the following keys fill buckets 1..4, two per bucket, in the
\* order (h1 + i) mod 5; 10 insertions succeed and the insertion of an 11th
\* such key returns false and leaves the table as it was.
C17_LinearScenario ==
  IsLinearScenario =>
    /\ \A b \in 1..Len(buckets) : \A p \in 1..Len(buckets[b]) :
         /\ buckets[b][p].key = 2 * (b - 1) + p
         /\ b - 1 = ProbeIndex(Tbl, buckets[b][p].key, (buckets[b][p].key - 1) \div 2)
    /\ \A v \in Values :
         LET n == StoredEntries(Tbl)
             r == Insertar(Tbl, n + 1, v)
         IN /\ n < 10 =>
                 /\ r.res = "true"
                 /\ LiveIndex(r.t.buckets[ProbeIndex(Tbl, n + 1, n \div 2) + 1], n + 1) # 0
            /\ n >= 10 => (r.res = "false" /\ r.t = Tbl)

\* C17 witness: the LINEAR_PROBING scenario after 10 insertions: every bucket
\* holds 2 entries and the 11th key is rejected.
C17_Witness ==
  /\ IsLinearScenario
  /\ StoredEntries(Tbl) = 10
  /\ \A v \in Values : Insertar(Tbl, 11, v).res = "false"

\* C18: in the SEPARATE_OVERFLOW scenario the first 2 keys are stored in bucket
\* 0, the next 5 in overflow slots 0..4 in order, and the 8th insertar returns
\* false; a new key whose base bucket is full and whose overflow area has no
\* usable slot is rejected with false and the table stays as it was.
C18_OverflowScenario ==
  IsOverflowScenario =>
    /\ \A p \in 1..Len(buckets[1]) : buckets[1][p].key = p
    /\ \A b \in 2..Len(buckets) : buckets[b] = <<>>
    /\ \A i \in 1..Len(overflow) : overflow[i] # <<>> => overflow[i][1].key = i + 2
    /\ \A v \in Values :
         LET n == StoredEntries(Tbl)
             r == Insertar(Tbl, n + 1, v)
         IN /\ n < 2 => (r.res = "true" /\ LiveIndex(r.t.buckets[1], n + 1) # 0)
            /\ (n >= 2 /\ n < 7) =>
                 (r.res = "true" /\ r.t.overflow[n - 1] # <<>> /\ r.t.overflow[n - 1][1].key = n + 1)
            /\ n = 7 => (r.res = "false" /\ r.t = Tbl)
    /\ \A k \in ScenarioKeys, v \in Values :
         (/\ LivePlaces(Tbl, k) = {}
          /\ Len(buckets[1]) >= bucketCapacity
          /\ \A i \in 1..Len(overflow) : overflow[i] # <<>> /\ ~overflow[i][1].deleted)
         => Insertar(Tbl, k, v).res = "false"

\* C18 witness: the SEPARATE_OVERFLOW scenario after 7 insertions: bucket 0 and
\* the 5 overflow slots are full and the 8th key is rejected.
C18_Witness ==
  /\ IsOverflowScenario
  /\ StoredEntries(Tbl) = 7
  /\ \A i \in 1..Len(overflow) : overflow[i] # <<>>
  /\ \A v \in Values : Insertar(Tbl, 8, v).res = "false"

(***************************************************************************)
(* Properties of the split scenario (checked under SpecExtendible)         *)
(***************************************************************************)

\* C20: under EXTENDIBLE_HASH with capacity 4 and bucketCapacity 4, the first 4
\* distinct keys with equal low-order hash bits cause no split, and the 5th
\* causes exactly one bucket split (bucket count 4 to 5) and doubles the
\* directory (directory length 4 to 8, globalDepth 2 to 3).
C20_SplitDoublesDirectory ==
  (method = "EXTENDIBLE_HASH" /\ capacity = 4 /\ aBucketCapacity = 4 /\ Len(aBuckets) = 4) =>
    \A fam \in ExtKeyFamilies :
      StoredKeys(Adv) \subseteq fam =>
        \A k \in fam \ StoredKeys(Adv), v \in Values :
          LET r == Set(Adv, k, v) IN
            /\ Cardinality(StoredKeys(Adv)) < 4 =>
                 (r.err = "none" /\ Len(r.t.buckets) = 4 /\ Len(r.t.directory) = 4)
            /\ Cardinality(StoredKeys(Adv)) = 4 =>
                 /\ r.err = "none"
                 /\ Len(r.t.buckets) = 5
                 /\ Len(r.t.directory) = 8
                 /\ r.t.globalDepth = 3


\* C21: under EXTENDIBLE_HASH every set call terminates after finitely many
\* bucket splits, whether the directory index of the full bucket is even or odd
\* and also when all entries of the full bucket are hash-equal at the current
\* depth: set never recurses until the call stack is exhausted.
C21_SetExtendibleTerminates ==
  method = "EXTENDIBLE_HASH" =>
    \A fam \in ExtKeyFamilies :
      StoredKeys(Adv) \subseteq fam =>
        \A k \in fam \ StoredKeys(Adv), v \in Values :
          Set(Adv, k, v).err # "RangeError"


(***************************************************************************)
(* Properties of the configurations (checked under SpecConfig)             *)
(***************************************************************************)

\* C22: configuring a table with strategy DOUBLE_HASHING and no secondaryHash
\* is rejected with an error at construction time, before any insertar, buscar
\* or eliminar is called: no constructed table has that configuration.
C22_ConfigurationRejected ==
  ~(strategy = "DOUBLE_HASHING" /\ secondaryHash = <<>>)

\* C23: on a table whose strategy identifier is outside the four recognized
\* tags no operation completes with a normal return value: insertar, buscar and
\* eliminar all raise.
C23_UnknownStrategyFatal ==
  strategy \notin Strategies =>
    \A k \in Keys :
      /\ \A v \in Values : Insertar(Tbl, k, v).res = "throw"
      /\ BuscarThrows(Tbl)
      /\ Eliminar(Tbl, k).res = "throw"


\* C24: mod(n, m) is in [0, m) for every integer n (negative included) and
\* every m >= 1; consequently the base index, every probeIndex(key, attempt) and
\* every candidate index of the chained scan is in [0, numBuckets), for any
\* primary and secondary hash values and any attempt number.
C24_ModInRange ==
  /\ \A n \in (0 - MaxMagnitude)..MaxMagnitude, m \in 1..MaxMagnitude :
       Mod(n, m) \in 0..(m - 1)
  /\ \A k \in Keys :
       /\ Mod(primaryHash[k], numBuckets) \in 0..(numBuckets - 1)
       /\ \A offset \in 0..MaxMagnitude :
            Mod(Mod(primaryHash[k], numBuckets) + offset, numBuckets) \in 0..(numBuckets - 1)
       /\ ~ProbeThrows(Tbl) =>
            \A attempt \in 0..MaxMagnitude :
              ProbeIndex(Tbl, k, attempt) \in 0..(numBuckets - 1)

\* C24 witness: a key whose primary hash is negative with a non-zero JavaScript
\* remainder is stored, live, in bucket mod(primaryHash(k), numBuckets), in a
\* DOUBLE_HASHING table whose secondary hash of the key is negative too.
C24_Witness ==
  /\ strategy = "DOUBLE_HASHING"
  /\ secondaryHash # <<>>
  /\ \E k \in Keys :
       /\ JsRem(primaryHash[k], numBuckets) < 0
       /\ JsRem(secondaryHash[1][k], numBuckets) < 0
       /\ LiveIndex(buckets[Mod(primaryHash[k], numBuckets) + 1], k) # 0

\* C28: under LINEAR_PROBING, DOUBLE_HASHING and SEPARATE_OVERFLOW, after any
\* interleaving of insertar and eliminar (delete-then-reinsert of a key, inserts
\* that spill past full buckets or into the overflow area), each key has at most
\* one non-deleted entry in the buckets and the overflow area combined.
C28_ProbingKeyUniqueness ==
  strategy \in {"LINEAR_PROBING", "DOUBLE_HASHING", "SEPARATE_OVERFLOW"} =>
    \A k \in Keys : Cardinality(LivePlaces(Tbl, k)) <= 1

\* C28 witness: a key that was deleted and inserted again: it has a tombstone
\* and a live entry, and the live entry has spilled out of the key's home bucket
\* (into a later bucket of the probe sequence or into the overflow area).
C28_Witness ==
  /\ strategy \in {"LINEAR_PROBING", "DOUBLE_HASHING", "SEPARATE_OVERFLOW"}
  /\ \E k \in Keys :
       /\ \E b \in 1..Len(buckets) : HasTombstone(Tbl, b, k)
       /\ \E pl \in LivePlaces(Tbl, k) :
            pl[1] = "o" \/ pl[2] # Mod(primaryHash[k], numBuckets) + 1

\* C29: under LINEAR_PROBING, insertar of a key with no live entry appends it
\* to the first bucket along (h1 + i) mod numBuckets, i = 0..numBuckets-1, that
\* holds fewer than bucketCapacity entries (tombstones counted), and returns
\* false if and only if every bucket already holds bucketCapacity entries.
C29_LinearFirstFit ==
  strategy = "LINEAR_PROBING" =>
    \A k \in Keys, v \in Values :
      LivePlaces(Tbl, k) = {} =>
        LET free == {i \in 0..(numBuckets - 1) :
                       Len(buckets[((primaryHash[k] + i) % numBuckets) + 1]) < bucketCapacity}
            r    == Insertar(Tbl, k, v)
        IN /\ r.res = "false" <=> free = {}
           /\ r.res = "false" <=>
                \A b \in 1..numBuckets : Len(buckets[b]) = bucketCapacity
           /\ free # {} =>
                LET first == CHOOSE i \in free : \A j \in free : i <= j
                    b     == ((primaryHash[k] + first) % numBuckets) + 1
                IN /\ r.res = "true"
                   /\ r.t.buckets[b] =
                        Append(buckets[b], [key |-> k, value |-> v, deleted |-> FALSE])
                   /\ \A b2 \in (1..numBuckets) \ {b} : r.t.buckets[b2] = buckets[b2]

\* C29 witness: a LINEAR_PROBING table in which a key without live entry has a
\* home bucket that is full and holds a tombstone, so that its insertion goes
\* to a later bucket of the probe sequence.
C29_Witness ==
  /\ strategy = "LINEAR_PROBING"
  /\ numBuckets > 1
  /\ \E k \in Keys :
       /\ LivePlaces(Tbl, k) = {}
       /\ Len(buckets[Mod(primaryHash[k], numBuckets) + 1]) = bucketCapacity
       /\ \E k2 \in Keys : HasTombstone(Tbl, Mod(primaryHash[k], numBuckets) + 1, k2)
       /\ \E v \in Values : Insertar(Tbl, k, v).res = "true"

\* C30: under DOUBLE_HASHING the numBuckets probe indices (h1 + i*h2) mod
\* numBuckets, i = 0..numBuckets-1, are pairwise distinct for every key, so
\* insertar of a key with no live entry returns false only when every bucket is
\* full, never while some bucket still has a free slot.
C30_DoubleHashingCoversTable ==
  (strategy = "DOUBLE_HASHING" /\ secondaryHash # <<>>) =>
    \A k \in Keys :
      /\ \A i \in 0..(numBuckets - 1), j \in 0..(numBuckets - 1) :
           i # j => ProbeIndex(Tbl, k, i) # ProbeIndex(Tbl, k, j)
      /\ \A v \in Values :
           (LivePlaces(Tbl, k) = {} /\ Insertar(Tbl, k, v).res = "false") =>
             \A b \in 1..numBuckets : Len(buckets[b]) >= bucketCapacity


(***************************************************************************)
(* Properties of the probe steps (checked under SpecSteps)                 *)
(***************************************************************************)

\* C25: the probe step derived from the secondary hash is never 0: under
\* DOUBLE_HASHING the normalized step is in [1, numBuckets-1], or forced to 1
\* when the secondary hash is a multiple of numBuckets; under
\* TABLE_ASSISTED_HASH hash2 is in [1, capacity-1] for capacity >= 2; hence two
\* consecutive probe attempts never address the same bucket when there are at
\* least 2 buckets.
C25_ProbeStepNonZero ==
  /\ (strategy = "DOUBLE_HASHING" /\ secondaryHash # <<>>) =>
       \A k \in Keys :
         /\ ProbeStep(Tbl, k) >= 1
         /\ ProbeStep(Tbl, k) <= Max2(1, numBuckets - 1)
         /\ secondaryHash[1][k] % numBuckets = 0 => ProbeStep(Tbl, k) = 1
         /\ \A attempt \in 0..MaxMagnitude :
              /\ ProbeIndex(Tbl, k, attempt)
                   = (primaryHash[k] + attempt * ProbeStep(Tbl, k)) % numBuckets
              /\ numBuckets >= 2 =>
                   ProbeIndex(Tbl, k, attempt) # ProbeIndex(Tbl, k, attempt + 1)
  /\ (method = "TABLE_ASSISTED_HASH" /\ capacity >= 2) =>
       \A k \in AdvKeys :
         /\ Hash2(Adv, k) \in 1..(capacity - 1)
         /\ \A attempt \in 0..MaxMagnitude :
              GetBucketIndex(Adv, k, attempt) # GetBucketIndex(Adv, k, attempt + 1)

\* C25 witness: in the DOUBLE_HASHING table a key whose secondary hash is a
\* multiple of numBuckets (step forced to 1) is stored in the bucket of its
\* attempt 1, and in the TABLE_ASSISTED_HASH table a key is stored in the bucket
\* of its attempt 1.
C25_Witness ==
  /\ strategy = "DOUBLE_HASHING" /\ secondaryHash # <<>> /\ numBuckets >= 2
  /\ \E k \in Keys :
       /\ Mod(secondaryHash[1][k], numBuckets) = 0
       /\ LiveIndex(buckets[ProbeIndex(Tbl, k, 1) + 1], k) # 0
  /\ method = "TABLE_ASSISTED_HASH" /\ capacity >= 2
  /\ \E k \in AdvKeys :
       /\ FindLiveIndex(aBuckets[GetBucketIndex(Adv, k, 0) + 1].entries, k) = 0
       /\ FindLiveIndex(aBuckets[GetBucketIndex(Adv, k, 1) + 1].entries, k) # 0


(***************************************************************************)
(* Properties of the basic HashTable (checked under SpecBasic)             *)
(***************************************************************************)

\* entries(): the places <<bucket, position>> of the basic table that hold key
BasicPlaces(t, key) ==
  {pl \in {<<b, p>> : b \in 1..Len(t.buckets), p \in 1..Len(BasicKeyCodes)} :
     pl[2] <= Len(t.buckets[pl[1]]) /\ t.buckets[pl[1]][pl[2]].key = key}

\* keys(): the keys the table holds
BasicPresent(t) == {k \in BasicKeys : BasicPlaces(t, k) # {}}

\* C26: the basic table refines a finite map. In every state reached by set,
\* delete and clear calls (sets that resize included): no key occurs twice in
\* the buckets, getSize() is the number of present keys and get(k) is defined
\* exactly for them; set(k, v) makes get(k) = v and leaves get of every other
\* key as it was; delete(k) returns true iff k was present, makes get(k)
\* undefined and leaves the other keys as they were; clear() makes every get
\* undefined and getSize() 0.
C26_RefinesFiniteMap ==
  /\ \A k \in BasicKeys :
       /\ Cardinality(BasicPlaces(Basic, k)) <= 1
       /\ BasicGet(Basic, k) # <<>> <=> k \in BasicPresent(Basic)
  /\ BasicGetSize(Basic) = Cardinality(BasicPresent(Basic))
  /\ \A b \in 1..Len(hBuckets) : Len(hBuckets[b]) <= Len(BasicKeyCodes)
  /\ \A k \in BasicKeys :
       /\ \A v \in Values :
            LET r == BasicSet(Basic, k, v) IN
              /\ BasicGet(r, k) = <<v>>
              /\ \A k2 \in BasicKeys \ {k} : BasicGet(r, k2) = BasicGet(Basic, k2)
              /\ BasicGetSize(r) = Cardinality(BasicPresent(Basic) \cup {k})
       /\ LET d == BasicDelete(Basic, k) IN
            /\ d.res <=> BasicGet(Basic, k) # <<>>
            /\ BasicGet(d.t, k) = <<>>
            /\ \A k2 \in BasicKeys \ {k} : BasicGet(d.t, k2) = BasicGet(Basic, k2)
            /\ BasicGetSize(d.t) = Cardinality(BasicPresent(Basic) \ {k})
       /\ BasicGet(BasicClear(Basic), k) = <<>>
  /\ BasicGetSize(BasicClear(Basic)) = 0

\* C26 witness: a table holding two keys in one bucket, in which a present key
\* can be deleted and the set of an absent key triggers a resize.
C26_Witness ==
  /\ \E b \in 1..Len(hBuckets) : Len(hBuckets[b]) >= 2
  /\ \E k \in BasicKeys, v \in Values :
       /\ BasicGet(Basic, k) = <<>>
       /\ BasicSet(Basic, k, v).capacity = 2 * hCapacity
       /\ \E k2 \in BasicKeys \ {k} : BasicDelete(Basic, k2).res

\* C27: whenever set returns, size / capacity <= 0.75, for every initial
\* capacity >= 1; the capacity changes only by doubling inside set (delete and
\* clear leave it as it is), and a single set doubles it at most once.
C27_BasicLoadFactorBound ==
  /\ \A k \in BasicKeys, v \in Values :
       LET r == BasicSet(Basic, k, v) IN
         /\ r.size * 4 <= 3 * r.capacity
         /\ r.capacity \in {hCapacity, 2 * hCapacity}
         /\ r.capacity = 2 * hCapacity <=>
              (BasicGet(Basic, k) = <<>> /\ (hSize + 1) * 4 > 3 * hCapacity)
  /\ \A k \in BasicKeys : BasicDelete(Basic, k).t.capacity = hCapacity
  /\ BasicClear(Basic).capacity = hCapacity
  /\ hSize * 4 <= 3 * hCapacity

\* C27 witness: a table of capacity 4 loaded to exactly 0.75 in which the set
\* of a fourth key doubles the capacity to 8 and reinserts the four keys.
C27_Witness ==
  /\ hCapacity = 4
  /\ hSize = 3
  /\ \E k \in BasicKeys, v \in Values :
       LET r == BasicSet(Basic, k, v) IN
         r.capacity = 8 /\ r.size = 4


(***************************************************************************)
(* Properties of the advanced table's bookkeeping (checked under           *)
(* SpecAdvanced)                                                           *)
(***************************************************************************)

\* C33: under every method, set(k, v) does not change the result of get(k2)
\* for any other key k2; in particular, under LINEAR_PROBING and
\* TABLE_ASSISTED_HASH with bucketCapacity > 1, a set into a bucket whose first
\* entry is a tombstone does not remove the bucket's other live entries.
C33_SetKeepsOtherKeys ==
  \A k \in AdvKeys, v \in Values :
    LET r == Set(Adv, k, v) IN
      r.err = "none" =>
        \A k2 \in AdvKeys \ {k} : Get(r.t, k2) = Get(Adv, k2)

\* C34: under every method, delete(k) does not change the result of get(k2) for
\* any other key k2: deleting the last main-bucket entry leaves the keys of the
\* bucket's overflow chain retrievable, and a tombstone does not hide the keys
\* stored further along a probe sequence.
C34_DeleteKeepsOtherKeys ==
  \A k \in AdvKeys :
    LET r == Delete(Adv, k) IN
      r.err = "none" =>
        \A k2 \in AdvKeys \ {k} : Get(r.t, k2) = Get(Adv, k2)

\* C35: getSize() is non-negative and equals the number of live entries that
\* entries() reports, after any sequence of set, delete, clear and setMethod.
C35_SizeCountsEntries ==
  /\ GetSize(Adv) >= 0
  /\ GetSize(Adv) = Len(Entries(Adv))

\* getDebugInfo(): the number of entries stored from bucket b (1-based) on, main
\* entries (tombstones included) and overflow chains
RECURSIVE StoredFrom(_, _)
StoredFrom(t, b) ==
  IF b > Len(t.buckets) THEN 0
  ELSE Len(t.buckets[b].entries) + Len(ChainEntries(t.buckets[b])) + StoredFrom(t, b + 1)

\* C36: set(k, v) on a key that has a live entry overwrites the value and
\* leaves getSize() and the total number of stored entries unchanged, wherever
\* the entry sits (first or later position of a main bucket, or an overflow
\* chain).
C36_SetOverwritesInPlace ==
  \A k \in AdvKeys, v \in Values :
    AdvLivePlaces(Adv, k) # {} =>
      LET r == Set(Adv, k, v) IN
        r.err = "none" =>
          /\ Get(r.t, k) = [val |-> <<v>>, err |-> "none"]
          /\ GetSize(r.t) = GetSize(Adv)
          /\ StoredFrom(r.t, 1) = StoredFrom(Adv, 1)

\* C37: the stored loadFactor (getStats) equals size / (capacity *
\* bucketCapacity) in every reachable state, also after delete, after clear and
\* after set under EXTENDIBLE_HASH.
C37_LoadFactorCurrent ==
  loadFactor.num * capacity * aBucketCapacity = size * loadFactor.den

\* C38: under EXTENDIBLE_HASH the directory has exactly 2^globalDepth slots,
\* with globalDepth = ceil(log2(capacity)) on construction, and every slot's
\* bucketIndex refers to an existing bucket, after construction, set with
\* splits, delete, clear and setMethod into EXTENDIBLE_HASH.
C38_DirectoryWellFormed ==
  /\ \A cap \in AdvCapacities :
       LET t == AdvConstructor(cap, "EXTENDIBLE_HASH", maxLoadFactor, aBucketCapacity)
       IN t.globalDepth = CeilLog2(cap) /\ Len(t.directory) = Pow2(t.globalDepth)
  /\ method = "EXTENDIBLE_HASH" =>
       /\ Len(directory) = Pow2(globalDepth)
       /\ \A i \in 1..Len(directory) :
            directory[i].bucketIndex >= 0 /\ directory[i].bucketIndex < Len(aBuckets)

\* getDebugInfo(): how many times the pair (key, value) occurs in overflowArea
InOverflowArea(t, key, value) ==
  Cardinality({i \in 1..Len(t.overflowArea) :
                 t.overflowArea[i].key = key /\ t.overflowArea[i].value = value})

\* getDebugInfo(): how many times the pair (key, value) occurs in the buckets'
\* overflow chains
InOverflowChains(t, key, value) ==
  Cardinality({pl \in {<<b, p>> : b \in 1..Len(t.buckets), p \in 1..(MaxEntries + 1)} :
                 /\ pl[2] <= Len(ChainEntries(t.buckets[pl[1]]))
                 /\ ChainEntries(t.buckets[pl[1]])[pl[2]].key = key
                 /\ ChainEntries(t.buckets[pl[1]])[pl[2]].value = value})

\* C39: under SEPARATE_OVERFLOW, overflowArea contains exactly the entries held
\* in the buckets' overflow chains (none stale, none duplicated) after any
\* sequence of set, delete and resize; under every other method it is empty.
C39_OverflowAreaMirrorsChains ==
  IF method = "SEPARATE_OVERFLOW"
    THEN \A k \in AdvKeys, v \in Values :
           InOverflowArea(Adv, k, v) = InOverflowChains(Adv, k, v)
    ELSE overflowArea = <<>>

(***************************************************************************)
(* Properties of the entries' lifetime (checked under SpecLifetime)        *)
(***************************************************************************)

\* dump(): the places of the static table: <<"b", bucket, position>> for the
\* base buckets, <<"o", slot, 1>> for the overflow area
StaticPlaces(t) ==
  {pl \in {<<"b", b, p>> : b \in 1..Len(t.buckets), p \in 1..t.bucketCapacity} :
     pl[3] <= Len(t.buckets[pl[2]])}
  \cup {<<"o", i, 1>> : i \in {j \in 1..Len(t.overflow) : t.overflow[j] # <<>>}}

\* dump(): the entry stored at a place
EntryAt(t, pl) == IF pl[1] = "b" THEN t.buckets[pl[2]][pl[3]] ELSE t.overflow[pl[2]][1]

\* C31: eliminar never splices: a call that returns true changes exactly one
\* entry's deleted flag from false to true and nothing else (the number, order,
\* keys and values of the entries of every bucket and overflow slot are as
\* before), and an entry once tombstoned in a base bucket is never made live
\* again by a later insertar or eliminar.
C31_EliminarOnlyTombstones ==
  /\ \A k \in Keys :
       LET r == Eliminar(Tbl, k) IN
         r.res = "true" =>
           /\ StaticPlaces(r.t) = StaticPlaces(Tbl)
           /\ Len(r.t.buckets) = Len(buckets) /\ Len(r.t.overflow) = Len(overflow)
           /\ LET changed == {pl \in StaticPlaces(Tbl) : EntryAt(r.t, pl) # EntryAt(Tbl, pl)}
              IN /\ Cardinality(changed) = 1
                 /\ \A pl \in changed :
                      /\ ~EntryAt(Tbl, pl).deleted
                      /\ EntryAt(r.t, pl) = [EntryAt(Tbl, pl) EXCEPT !.deleted = TRUE]
  /\ \A b \in 1..Len(buckets) : \A p \in 1..Len(buckets[b]) :
       buckets[b][p].deleted =>
         \A k \in Keys :
           /\ Eliminar(Tbl, k).t.buckets[b][p] = buckets[b][p]
           /\ \A v \in Values : Insertar(Tbl, k, v).t.buckets[b][p] = buckets[b][p]

\* C31 witness: a bucket holds a tombstone followed by a live entry, and
\* eliminar of the live entry's key returns true.
C31_Witness ==
  \E b \in 1..Len(buckets) :
    /\ Len(buckets[b]) >= 2
    /\ buckets[b][1].deleted
    /\ ~buckets[b][2].deleted
    /\ Eliminar(Tbl, buckets[b][2].key).res = "true"

\* C32: the entry count of each base bucket (live plus tombstoned) never
\* decreases, so a full bucket stays full; consequently, under LINEAR_PROBING,
\* once insertar of an absent key returns false, insertar of every absent key
\* returns false, now and after every later eliminar or insertar call.
C32_FullStaysFull ==
  /\ \A k \in Keys, b \in 1..Len(buckets) :
       /\ Len(Eliminar(Tbl, k).t.buckets[b]) >= Len(buckets[b])
       /\ \A v \in Values : Len(Insertar(Tbl, k, v).t.buckets[b]) >= Len(buckets[b])
  /\ (/\ strategy = "LINEAR_PROBING"
      /\ \E k \in Keys, v \in Values :
           LivePlaces(Tbl, k) = {} /\ Insertar(Tbl, k, v).res = "false") =>
       LET AllRejected(t) ==
             \A k \in Keys, v \in Values :
               LivePlaces(t, k) = {} => Insertar(t, k, v).res = "false"
       IN /\ AllRejected(Tbl)
          /\ \A k \in Keys :
               /\ AllRejected(Eliminar(Tbl, k).t)
               /\ \E k2 \in Keys : LivePlaces(Eliminar(Tbl, k).t, k2) = {}
               /\ \A v \in Values :
                    /\ AllRejected(Insertar(Tbl, k, v).t)
                    /\ \E k2 \in Keys : LivePlaces(Insertar(Tbl, k, v).t, k2) = {}

\* C32 witness: a LINEAR_PROBING table of more than one bucket whose buckets
\* are all full, one of them with a tombstone, in which insertar of an absent
\* key returns false.
C32_Witness ==
  /\ strategy = "LINEAR_PROBING"
  /\ numBuckets > 1
  /\ \A b \in 1..Len(buckets) : Len(buckets[b]) = bucketCapacity
  /\ \E b \in 1..Len(buckets), k \in Keys :
       /\ HasTombstone(Tbl, b, k)
       /\ LivePlaces(Tbl, k) = {}
       /\ \A v \in Values : Insertar(Tbl, k, v).res = "false"

====
